---- MODULE Spec2Model ----
(***************************************************************************)
(* Weekly payout and closing engine of motoboys-webapp: week lifecycle,    *)
(* payout preview, loan amortisation at closing, the VALE rule, and the    *)
(* close / pay transitions.                                                *)
(*                                                                         *)
(* Conventions of the model                                                *)
(*   - row ids are positions in the table's sequence; 0 is SQL NULL;       *)
(*   - money is a whole number of cents (Numeric(12,2)); binary floating   *)
(*     point drift of the Python floats is not modelled;                   *)
(*   - a date is a day number; day 0 is a Monday, so weekday(d) = d % 7    *)
(*     as in datetime.date.weekday();                                      *)
(*   - db is the committed content of the store; a handler computes a      *)
(*     working copy and the copy becomes db only where the code commits.   *)
(***************************************************************************)
EXTENDS Integers, Sequences, FiniteSets, TLC

VARIABLES db, last, handlers, split

vars == <<db, last, handlers, split>>

Null == 0

\* ---------------------------------------------------------------- bounds
MaxWeeks == 1
MaxRides == 1
MaxTotal == 40
MaxN == 4
MaxStoreWeeks == 3
MaxLoanWeeks == 3
MaxSnapWeeks == 2
MaxSnapRides == 1
MaxPlanWeeks == 2
MaxWalkWeeks == 27
MaxReviewRides == 2

\* ------------------------------------------------------- program constants
DEFAULT_LOAN_INSTALLMENTS == 3
WalkLimit == 26
_PENDING_STATUSES == {"PENDENTE_ATRIBUICAO", "PENDENTE_REVISAO", "PENDENTE_MATCH"}

\* ------------------------------------------------------------ input sets
Couriers == {1, 2}
FeeTypes == {6, 10}

\* ------------------------------------------------------------ generic helpers
Max(a, b) == IF a >= b THEN a ELSE b
Min(a, b) == IF a <= b THEN a ELSE b

Idx(s) == 1..Len(s)

RECURSIVE SumSet(_, _)
SumSet(S, f) ==
    IF S = {} THEN 0
    ELSE LET x == CHOOSE y \in S : TRUE IN f[x] + SumSet(S \ {x}, f)

RECURSIVE SumSeq(_)
SumSeq(s) == IF s = <<>> THEN 0 ELSE Head(s) + SumSeq(Tail(s))

\* ascending list of a finite set of integers
RECURSIVE SortedSeq(_)
SortedSeq(S) ==
    IF S = {} THEN <<>>
    ELSE LET m == CHOOSE x \in S : \A y \in S : x <= y IN <<m>> \o SortedSeq(S \ {m})

EmptyDb ==
    [weeks |-> <<>>, rides |-> <<>>, ledger |-> <<>>, plans |-> <<>>,
     installments |-> <<>>, applications |-> <<>>, payouts |-> {},
     groups |-> <<>>, items |-> {}, signatures |-> {}]

\* ================================================================ WeekLifecycle
weekday(d) == d % 7

\* a week anchor on the Monday on or before d
MondayStart(d) == d - weekday(d)

thursday_start(d) == d - ((weekday(d) - 3) % 7)

\* the filter of validate_no_week_overlap: ids of weeks intersecting
\* [start_date, end_date], the excluded id left out
OverlapHits(s, start_date, end_date, exclude_week_id) ==
    {i \in Idx(s.weeks) :
        /\ s.weeks[i].start_date <= end_date
        /\ s.weeks[i].end_date >= start_date
        /\ i # exclude_week_id}

\* TRUE when the call returns, FALSE when it raises WEEK_OVERLAP
validate_no_week_overlap(s, start_date, end_date, exclude_week_id) ==
    OverlapHits(s, start_date, end_date, exclude_week_id) = {}

\* a sequence number that repeats the current maximum
NextClosingSeqSame(s) ==
    LET seqs == {s.weeks[i].closing_seq : i \in Idx(s.weeks)}
    IN IF seqs = {} THEN 0 ELSE CHOOSE m \in seqs : \A x \in seqs : x <= m

_next_closing_seq(s) ==
    LET seqs == {s.weeks[i].closing_seq : i \in Idx(s.weeks)}
        curr == IF seqs = {} THEN 0 ELSE CHOOSE m \in seqs : \A x \in seqs : x <= m
    IN curr + 1

\* the lookup query of get_or_create_week_for_date
WeeksContaining(s, d) ==
    {i \in Idx(s.weeks) : s.weeks[i].start_date <= d /\ s.weeks[i].end_date >= d}

\* a week resolution that inserts the Thursday week of d without looking for an
\* existing week and without the overlap validation
CreateWeekUnchecked(s, d) ==
    LET w == [closing_seq |-> _next_closing_seq(s), start_date |-> thursday_start(d),
              end_date |-> thursday_start(d) + 6, status |-> "OPEN"]
    IN [db |-> [s EXCEPT !.weeks = Append(@, w)], week |-> Len(s.weeks) + 1, error |-> "NONE"]

\* result: the store after the call (the function commits its insert),
\* the returned week id and the error raised ("NONE" when it returns)
get_or_create_week_for_date(s, d) ==
    LET hit == WeeksContaining(s, d) IN
    IF hit # {}
    THEN [db |-> s, week |-> CHOOSE i \in hit : \A j \in hit : i <= j, error |-> "NONE"]
    ELSE LET start == thursday_start(d)
             end == start + 6
         IN IF ~validate_no_week_overlap(s, start, end, Null)
            THEN [db |-> s, week |-> Null, error |-> "WEEK_OVERLAP"]
            ELSE [db |-> [s EXCEPT !.weeks = Append(@,
                            [closing_seq |-> _next_closing_seq(s),
                             start_date |-> start, end_date |-> end,
                             status |-> "OPEN"])],
                  week |-> Len(s.weeks) + 1,
                  error |-> "NONE"]

get_current_week(s, today) == get_or_create_week_for_date(s, today)

\* the for-loop of get_open_week_for_date with n iterations left
RECURSIVE OpenWeekWalk(_, _, _, _)
OpenWeekWalk(s, cursor, ww, n) ==
    IF n = 0 THEN [db |-> s, week |-> ww, error |-> "NONE"]
    ELSE LET r == get_or_create_week_for_date(s, cursor) IN
         IF r.error # "NONE" THEN r
         ELSE IF r.db.weeks[r.week].status = "OPEN" THEN r
         ELSE OpenWeekWalk(r.db, r.db.weeks[r.week].end_date + 1, r.week, n - 1)

\* a lookup that returns the week of d whatever its status
GetWeekNoWalk(s, d) == get_or_create_week_for_date(s, d)

get_open_week_for_date(s, d) ==
    LET r == get_or_create_week_for_date(s, d) IN
    IF r.error # "NONE" THEN r
    ELSE IF r.db.weeks[r.week].status = "OPEN" THEN r
    ELSE OpenWeekWalk(r.db, r.db.weeks[r.week].end_date + 1, r.week, WalkLimit)

\* ========================================================== PayoutPreviewEngine
\* a scope that only looks at the home week
ScopeHomeWeek(r, week_id) == r.week_id = week_id

_scope_filter(r, week_id) ==
    \/ (r.week_id = week_id /\ r.paid_in_week_id = Null)
    \/ r.paid_in_week_id = week_id

not_cancelled(r) == r.is_cancelled = "NULL" \/ r.is_cancelled = "FALSE"

\* ids of the installments the query returns
DueInstallmentIds(s, courier_id, closing_seq) ==
    {i \in Idx(s.installments) :
        /\ s.plans[s.installments[i].plan_id].courier_id = courier_id
        /\ s.plans[s.installments[i].plan_id].status = "ACTIVE"
        /\ s.installments[i].status \in {"DUE", "ROLLED", "PARTIAL"}
        /\ s.installments[i].due_closing_seq <= closing_seq}

\* the opposite order: ORDER BY due_closing_seq DESC, installment_no DESC
DueBeforeReversed(s, i, j) ==
    LET a == s.installments[i]
        b == s.installments[j]
    IN \/ a.due_closing_seq > b.due_closing_seq
       \/ (a.due_closing_seq = b.due_closing_seq /\ a.installment_no > b.installment_no)
       \/ (a.due_closing_seq = b.due_closing_seq /\ a.installment_no = b.installment_no /\ i > j)

\* ORDER BY due_closing_seq, installment_no (rows equal on both keep id order)
DueBefore(s, i, j) ==
    LET a == s.installments[i]
        b == s.installments[j]
    IN \/ a.due_closing_seq < b.due_closing_seq
       \/ (a.due_closing_seq = b.due_closing_seq /\ a.installment_no < b.installment_no)
       \/ (a.due_closing_seq = b.due_closing_seq /\ a.installment_no = b.installment_no /\ i < j)

RECURSIVE OrderDue(_, _)
OrderDue(s, S) ==
    IF S = {} THEN <<>>
    ELSE LET m == CHOOSE i \in S : \A j \in S \ {i} : DueBefore(s, i, j)
         IN <<m>> \o OrderDue(s, S \ {m})

\* the fetched rows: id, due_closing_seq, amount, paid_amount as read by the query
_get_due_installments(s, courier_id, closing_seq) ==
    LET ids == OrderDue(s, DueInstallmentIds(s, courier_id, closing_seq))
    IN [k \in Idx(ids) |->
          [id |-> ids[k],
           due_closing_seq |-> s.installments[ids[k]].due_closing_seq,
           amount |-> s.installments[ids[k]].amount,
           paid_amount |-> s.installments[ids[k]].paid_amount]]

\* a remainder that forgets what was already paid
RemainingFullAmount(inst_row) == inst_row.amount

_remaining_installment_amount(inst_row) == Max(0, inst_row.amount - inst_row.paid_amount)

OkRides(s, week_id, cid) ==
    {i \in Idx(s.rides) :
        /\ _scope_filter(s.rides[i], week_id)
        /\ s.rides[i].status = "OK"
        /\ not_cancelled(s.rides[i])
        /\ s.rides[i].courier_id = cid}

PendingRides(s, week_id, cid) ==
    {i \in Idx(s.rides) :
        /\ _scope_filter(s.rides[i], week_id)
        /\ s.rides[i].status \in _PENDING_STATUSES
        /\ not_cancelled(s.rides[i])
        /\ s.rides[i].courier_id = cid}

LedgerOf(s, week_id, cid, type) ==
    {i \in Idx(s.ledger) :
        /\ s.ledger[i].week_id = week_id
        /\ s.ledger[i].courier_id = cid
        /\ s.ledger[i].type = type}

\* keys of by_id: every courier_id (NULL included) with a grouped row
PreviewCourierIds(s, week_id) ==
    {cid \in {Null} \cup Couriers :
        \/ OkRides(s, week_id, cid) # {}
        \/ PendingRides(s, week_id, cid) # {}
        \/ LedgerOf(s, week_id, cid, "EXTRA") \cup LedgerOf(s, week_id, cid, "VALE") # {}}

\* a budget without the clamp at zero
InstallmentsAmountUnclamped(pre_installment_net, installment_due_total) ==
    Min(pre_installment_net, installment_due_total)

\* installments_amount = max(0.0, min(pre_installment_net, installment_due_total))
InstallmentsAmount(pre_installment_net, installment_due_total) ==
    Max(0, Min(pre_installment_net, installment_due_total))

PreviewRow(s, week_id, cid) ==
    LET rides_amount == SumSet(OkRides(s, week_id, cid), [i \in Idx(s.rides) |-> 100 * s.rides[i].fee_type])
        extras_amount == SumSet(LedgerOf(s, week_id, cid, "EXTRA"), [i \in Idx(s.ledger) |-> s.ledger[i].amount])
        vales_amount == SumSet(LedgerOf(s, week_id, cid, "VALE"), [i \in Idx(s.ledger) |-> s.ledger[i].amount])
        due == IF cid = Null THEN <<>>
               ELSE _get_due_installments(s, cid, s.weeks[week_id].closing_seq)
        installment_due_total == SumSeq([k \in Idx(due) |-> _remaining_installment_amount(due[k])])
        pre_installment_net == rides_amount + extras_amount - vales_amount
        installments_amount == InstallmentsAmount(pre_installment_net, installment_due_total)
    IN [week_id |-> week_id,
        courier_id |-> cid,
        rides_count |-> Cardinality(OkRides(s, week_id, cid)),
        rides_amount |-> rides_amount,
        extras_amount |-> extras_amount,
        vales_amount |-> vales_amount,
        installments_amount |-> installments_amount,
        pending_count |-> Cardinality(PendingRides(s, week_id, cid)),
        net_amount |-> pre_installment_net - installments_amount,
        is_flag_red |-> IF cid = Null THEN FALSE ELSE installment_due_total > installments_amount]

\* rows sorted by courier name; the model's couriers are named in id order
\* and the "<SEM ATRIBUICAO>" label of the NULL bucket sorts before letters
compute_week_payout_preview(s, week_id) ==
    LET cids == SortedSeq(PreviewCourierIds(s, week_id))
    IN [k \in Idx(cids) |-> PreviewRow(s, week_id, cids[k])]

\* ================================================================ clock
\* the value of now(): later than every timestamp the store holds
now(s) ==
    LET stamps == {p.computed_at : p \in s.payouts} \cup {p.paid_at : p \in s.payouts}
    IN 1 + (IF stamps = {} THEN 0 ELSE CHOOSE m \in stamps : \A x \in stamps : x <= m)

\* ================================================================ Session
\* db.commit(): the working copy becomes the committed store
SessionCommit(committed, working) == working

\* a session that flushes and commits on close
SessionCloseCommits(committed, working) == working

\* get_db closes the session in its finally block without committing
\* (autocommit=False): what the handler wrote since its last commit is lost
SessionClose(committed, working) == committed

\* ======================================================= WeekClosingTransaction
\* the loop over due_rows from position k on; to_apply is the budget left
RECURSIVE ApplyInstallments(_, _, _, _, _)
ApplyInstallments(s, week_id, due_rows, k, to_apply) ==
    IF k > Len(due_rows) THEN s
    ELSE
      LET inst == due_rows[k]
          remaining == _remaining_installment_amount(inst)
      IN IF remaining <= 0
         THEN ApplyInstallments(s, week_id, due_rows, k + 1, to_apply)
         ELSE
           LET applied == Min(to_apply, remaining)
               s1 == IF applied > 0
                     THEN [s EXCEPT
                             !.applications = Append(@,
                                 [installment_id |-> inst.id, week_id |-> week_id,
                                  applied_amount |-> applied]),
                             !.installments[inst.id].paid_amount = @ + applied]
                     ELSE s
               to_apply1 == IF applied > 0 THEN to_apply - applied ELSE to_apply
               remaining1 == IF applied > 0 THEN remaining - applied ELSE remaining
               s2 == IF remaining1 <= 0
                     THEN [s1 EXCEPT !.installments[inst.id].status = "PAID"]
                     ELSE [s1 EXCEPT
                             !.installments[inst.id].status =
                                 IF applied > 0 THEN "PARTIAL" ELSE "ROLLED",
                             !.installments[inst.id].due_closing_seq = @ + 1]
           IN ApplyInstallments(s2, week_id, due_rows, k + 1, to_apply1)

\* a close that never completes a plan
ClosePlansNever(s, courier_id) == s

\* UPDATE loan_plans SET status = 'DONE' ... NOT EXISTS open installment
ClosePlans(s, courier_id) ==
    [s EXCEPT !.plans = [p \in Idx(s.plans) |->
        IF /\ s.plans[p].courier_id = courier_id
           /\ s.plans[p].status = "ACTIVE"
           /\ ~\E i \in Idx(s.installments) :
                 /\ s.installments[i].plan_id = p
                 /\ s.installments[i].status \in {"DUE", "ROLLED", "PARTIAL"}
        THEN [s.plans[p] EXCEPT !.status = "DONE"]
        ELSE s.plans[p]]]

\* an iteration that applies everything that is due, whatever the row's budget
CourierInstallmentsAll(s, week_id, r) ==
    LET due == _get_due_installments(s, r.courier_id, s.weeks[week_id].closing_seq)
    IN ApplyInstallments(s, week_id, due, 1,
           SumSeq([k \in Idx(due) |-> _remaining_installment_amount(due[k])]))

\* the installment statements of one iteration of the loop over rows
CourierInstallments(s, week_id, r) ==
    ApplyInstallments(s, week_id,
        _get_due_installments(s, r.courier_id, s.weeks[week_id].closing_seq),
        1, r.installments_amount)

\* one whole iteration: installments, plan completion, db.add(WeekPayout)
CourierIteration(s, week_id, r, t) ==
    IF r.courier_id = Null THEN s
    ELSE LET s1 == ClosePlans(CourierInstallments(s, week_id, r), r.courier_id)
         IN [s1 EXCEPT !.payouts = @ \cup
               {[week_id |-> week_id,
                 courier_id |-> r.courier_id,
                 rides_amount |-> r.rides_amount,
                 extras_amount |-> r.extras_amount,
                 vales_amount |-> r.vales_amount,
                 installments_amount |-> r.installments_amount,
                 net_amount |-> r.net_amount,
                 pending_count |-> r.pending_count,
                 is_flag_red |-> r.is_flag_red,
                 computed_at |-> t,
                 paid_at |-> Null]}]

\* a close whose snapshot delete has no week filter
RECURSIVE CloseWorkingDeleteAll(_, _, _, _, _)
CloseWorkingDeleteAll(s, week_id, rows, k, t) ==
    IF k = 0
    THEN [s EXCEPT !.payouts = {}]
    ELSE CourierIteration(CloseWorkingDeleteAll(s, week_id, rows, k - 1, t), week_id, rows[k], t)

\* the working copy after the snapshot delete and the first k rows
RECURSIVE CloseWorking(_, _, _, _, _)
CloseWorking(s, week_id, rows, k, t) ==
    IF k = 0
    THEN [s EXCEPT !.payouts = {p \in @ : p.week_id # week_id}]
    ELSE CourierIteration(CloseWorking(s, week_id, rows, k - 1, t), week_id, rows[k], t)

\* a close_week without its status check
CloseStatusAny(s, week_id) == TRUE

\* the status check of close_week
CloseStatusOk(s, week_id) == s.weeks[week_id].status = "OPEN"

\* a gate that forgets the unassigned OK deliveries
HasPendingsOnlyPending(rows) ==
    SumSeq([k \in Idx(rows) |-> rows[k].pending_count]) > 0

\* the gate: TRUE when close_week raises WEEK_HAS_PENDINGS
HasPendings(rows) ==
    LET pending_total == SumSeq([k \in Idx(rows) |-> rows[k].pending_count])
        unassigned == {k \in Idx(rows) : rows[k].courier_id = Null /\ rows[k].rides_count > 0}
    IN pending_total > 0 \/ unassigned # {}

\* the error close_week raises before it writes, "NONE" when it goes on
CloseError(s, week_id) ==
    IF week_id \notin Idx(s.weeks) THEN "404"
    ELSE IF ~CloseStatusOk(s, week_id) THEN "WEEK_NOT_OPEN"
    ELSE IF ~validate_no_week_overlap(s, s.weeks[week_id].start_date,
                                      s.weeks[week_id].end_date, week_id)
         THEN "WEEK_OVERLAP"
    ELSE IF HasPendings(compute_week_payout_preview(s, week_id)) THEN "WEEK_HAS_PENDINGS"
    ELSE "NONE"

\* the store close_week commits; t is the clock reading
close_week(s, week_id, t) ==
    IF CloseError(s, week_id) # "NONE"
    THEN [db |-> SessionClose(s, s), error |-> CloseError(s, week_id)]
    ELSE LET rows == compute_week_payout_preview(s, week_id)
             w1 == CloseWorking(s, week_id, rows, Len(rows), t)
             w2 == [w1 EXCEPT !.weeks[week_id].status = "CLOSED"]
         IN [db |-> SessionCommit(s, w2), error |-> "NONE"]

\* ======================================================= WeekPaymentTransition
\* a pay_week that only rejects OPEN weeks
PayStatusNotOpen(s, week_id) == s.weeks[week_id].status # "OPEN"

PayStatusOk(s, week_id) == s.weeks[week_id].status = "CLOSED"

\* a pay_week whose UPDATE has no WHERE clause
PayWeekAllRows(s, week_id, t) ==
    IF week_id \notin Idx(s.weeks) THEN [db |-> s, error |-> "404"]
    ELSE IF s.weeks[week_id].status # "CLOSED"
         THEN [db |-> s, error |-> "WEEK_NOT_CLOSED"]
    ELSE [db |-> [s EXCEPT !.weeks[week_id].status = "PAID",
                           !.payouts = {[p EXCEPT !.paid_at = t] : p \in @}],
          error |-> "NONE"]

pay_week(s, week_id, t) ==
    IF week_id \notin Idx(s.weeks) THEN [db |-> s, error |-> "404"]
    ELSE IF ~PayStatusOk(s, week_id)
         THEN [db |-> SessionClose(s, s), error |-> "WEEK_NOT_CLOSED"]
    ELSE LET w1 == [s EXCEPT
                      !.weeks[week_id].status = "PAID",
                      !.payouts = {IF p.week_id = week_id
                                   THEN [p EXCEPT !.paid_at = t] ELSE p : p \in @}]
         IN [db |-> SessionCommit(s, w1), error |-> "NONE"]

\* ================================================================ LoanAmortizer
\* Decimal quantize(..., rounding=ROUND_DOWN): truncation toward zero
TruncDiv(a, b) == IF a >= 0 THEN a \div b ELSE -((-a) \div b)

\* a split that gives every installment the base amount
SplitEven(total_amount, n_installments) ==
    [k \in 1..n_installments |-> TruncDiv(total_amount, n_installments)]

\* the parts in cents; the total is a whole number of cents, on which
\* Decimal(str(total)).quantize(0.01) is exact.  n_installments >= 1
\* (the function raises ValueError otherwise, see SplitRaises)
_split_amount_cent(total_amount, n_installments) ==
    IF n_installments = 1 THEN <<total_amount>>
    ELSE LET base == TruncDiv(total_amount, n_installments)
         IN [k \in 1..n_installments |->
               IF k < n_installments THEN base
               ELSE total_amount - base * (n_installments - 1)]

SplitRaises(n_installments) == n_installments <= 0

\* a layout whose first installment falls due one closing later
CreateLoanPlanDueNext(s, courier_id, week_id, loan_amount, n_installments) ==
    LET plan_id == Len(s.plans) + 1
        parts == _split_amount_cent(loan_amount, n_installments)
        seq0 == s.weeks[week_id].closing_seq
    IN [s EXCEPT
          !.plans = Append(@, [courier_id |-> courier_id,
                               total_amount |-> loan_amount,
                               n_installments |-> n_installments,
                               status |-> "ACTIVE",
                               start_closing_seq |-> seq0]),
          !.installments = @ \o [k \in Idx(parts) |->
                               [plan_id |-> plan_id,
                                installment_no |-> k,
                                due_closing_seq |-> seq0 + k,
                                amount |-> parts[k],
                                paid_amount |-> 0,
                                status |-> "DUE"]]]

_create_loan_plan_with_installments(s, courier_id, week_id, loan_amount, n_installments) ==
    LET plan_id == Len(s.plans) + 1
        parts == _split_amount_cent(loan_amount, n_installments)
        seq0 == s.weeks[week_id].closing_seq
    IN [s EXCEPT
          !.plans = Append(@, [courier_id |-> courier_id,
                               total_amount |-> loan_amount,
                               n_installments |-> n_installments,
                               status |-> "ACTIVE",
                               start_closing_seq |-> seq0]),
          !.installments = @ \o [k \in Idx(parts) |->
                               [plan_id |-> plan_id,
                                installment_no |-> k,
                                due_closing_seq |-> seq0 + (k - 1),
                                amount |-> parts[k],
                                paid_amount |-> 0,
                                status |-> "DUE"]]]

\* ================================================================ AdvanceGuard
\* ledger.py:118 evaluates week["status"].  The function binds the row it
\* loaded to w; no name `week` is bound in the function or in the module, so
\* the evaluation raises NameError for every call that found the week.
LedgerWeekStatus(s, week_id) == "NameError"

\* a day gain that also counts the deliveries of the week that are paid in
\* another week
DayGainHomeWeek(s, courier_id, week_id, d) ==
    SumSet({i \in Idx(s.rides) :
               /\ s.rides[i].week_id = week_id
               /\ s.rides[i].courier_id = courier_id
               /\ s.rides[i].status = "OK"
               /\ not_cancelled(s.rides[i])
               /\ s.rides[i].order_date = d},
           [i \in Idx(s.rides) |-> 100 * s.rides[i].fee_type])

day_gain(s, courier_id, week_id, d) ==
    SumSet({i \in Idx(s.rides) :
               /\ s.rides[i].week_id = week_id
               /\ s.rides[i].paid_in_week_id = Null
               /\ s.rides[i].courier_id = courier_id
               /\ s.rides[i].status = "OK"
               /\ not_cancelled(s.rides[i])
               /\ s.rides[i].order_date = d},
           [i \in Idx(s.rides) |-> 100 * s.rides[i].fee_type])

existing_vales(s, courier_id, week_id, d) ==
    SumSet({i \in Idx(s.ledger) :
               /\ s.ledger[i].week_id = week_id
               /\ s.ledger[i].courier_id = courier_id
               /\ s.ledger[i].type = "VALE"
               /\ s.ledger[i].effective_date = d},
           [i \in Idx(s.ledger) |-> s.ledger[i].amount])

NoResult == [ledger_entry |-> FALSE, vale_amount |-> 0, loan_amount |-> 0, loan_plan_id |-> Null]

\* the checks of create_ledger_entry in the order of the code
CreateLedgerError(s, courier_id, week_id, effective_date, type, amount) ==
    IF week_id \notin Idx(s.weeks) THEN "404"
    ELSE IF LedgerWeekStatus(s, week_id) = "NameError" THEN "NameError"
    ELSE IF LedgerWeekStatus(s, week_id) # "OPEN" THEN "WEEK_NOT_OPEN"
    ELSE IF courier_id \notin Couriers THEN "404"
    ELSE IF effective_date < s.weeks[week_id].start_date
            \/ effective_date > s.weeks[week_id].end_date THEN "DATE_OUTSIDE_WEEK"
    ELSE IF type \notin {"EXTRA", "VALE"} THEN "400"
    ELSE IF amount <= 0 THEN "400"
    ELSE "NONE"

create_ledger_entry(s, courier_id, week_id, effective_date, type, amount) ==
    LET err == CreateLedgerError(s, courier_id, week_id, effective_date, type, amount) IN
    IF err # "NONE" THEN [db |-> SessionClose(s, s), error |-> err, result |-> NoResult]
    ELSE IF type = "EXTRA"
    THEN [db |-> SessionCommit(s, [s EXCEPT !.ledger = Append(@,
                    [courier_id |-> courier_id, week_id |-> week_id,
                     effective_date |-> effective_date, type |-> type,
                     amount |-> amount])]),
          error |-> "NONE",
          result |-> [NoResult EXCEPT !.ledger_entry = TRUE]]
    ELSE
      LET available == Max(0, day_gain(s, courier_id, week_id, effective_date)
                               - existing_vales(s, courier_id, week_id, effective_date))
          vale_amount == Min(amount, available)
          loan_amount == Max(0, amount - vale_amount)
          s1 == IF vale_amount > 0
                THEN [s EXCEPT !.ledger = Append(@,
                        [courier_id |-> courier_id, week_id |-> week_id,
                         effective_date |-> effective_date, type |-> "VALE",
                         amount |-> vale_amount])]
                ELSE s
          s2 == IF loan_amount > 0
                THEN _create_loan_plan_with_installments(s1, courier_id, week_id,
                         loan_amount, DEFAULT_LOAN_INSTALLMENTS)
                ELSE s1
      IN [db |-> SessionCommit(s, s2),
          error |-> "NONE",
          result |-> [ledger_entry |-> vale_amount > 0,
                      vale_amount |-> vale_amount,
                      loan_amount |-> loan_amount,
                      loan_plan_id |-> IF loan_amount > 0 THEN Len(s1.plans) + 1 ELSE Null]]

delete_ledger_entry(s, ledger_id) ==
    IF ledger_id \notin Idx(s.ledger) THEN [db |-> s, error |-> "404"]
    ELSE [db |-> SessionCommit(s, [s EXCEPT !.ledger =
                    SubSeq(@, 1, ledger_id - 1) \o SubSeq(@, ledger_id + 1, Len(@))]),
          error |-> "NONE"]

\* ================================================== deliveries (collaborators)
\* one row of an import file.  courier_id is the result of match_courier_id
\* (Null when no courier matched); SAIPOS rows never need review, YOOGA rows
\* carry no cancel flag
import_row(s, order_date, today, courier_id, fee_type, is_cancelled, needs_review) ==
    LET r1 == get_or_create_week_for_date(s, order_date) IN
    IF r1.error # "NONE" THEN [db |-> r1.db, error |-> r1.error]
    ELSE
      LET redirected == r1.db.weeks[r1.week].status # "OPEN"
          r2 == IF redirected THEN get_open_week_for_date(r1.db, today) ELSE r1
      IN IF r2.error # "NONE" THEN [db |-> r2.db, error |-> r2.error]
         ELSE [db |-> SessionCommit(s, [r2.db EXCEPT !.rides = Append(@,
                   [courier_id |-> courier_id,
                    fee_type |-> fee_type,
                    status |-> IF needs_review THEN "PENDENTE_REVISAO"
                               ELSE IF courier_id # Null THEN "OK"
                               ELSE "PENDENTE_ATRIBUICAO",
                    is_cancelled |-> is_cancelled,
                    order_date |-> order_date,
                    week_id |-> r1.week,
                    paid_in_week_id |-> IF redirected THEN r2.week ELSE Null])]),
               error |-> "NONE"]

assign_ride(s, ride_id, courier_id, pay_in_current_week, today) ==
    IF ride_id \notin Idx(s.rides) THEN [db |-> s, error |-> "404"]
    ELSE
      LET s1 == [s EXCEPT !.rides[ride_id].courier_id = courier_id,
                          !.rides[ride_id].status = "OK"]
          week_id == s.rides[ride_id].week_id
      IN IF week_id \notin Idx(s.weeks) THEN [db |-> SessionClose(s, s1), error |-> "400"]
         ELSE IF s.weeks[week_id].status \in {"CLOSED", "PAID"} /\ pay_in_current_week
         THEN LET r == get_open_week_for_date(s1, today) IN
              IF r.error # "NONE" THEN [db |-> r.db, error |-> r.error]
              ELSE [db |-> SessionCommit(s, [r.db EXCEPT !.rides[ride_id].paid_in_week_id = r.week]),
                    error |-> "NONE"]
         ELSE [db |-> SessionCommit(s, s1), error |-> "NONE"]

\* one YOOGA file whose data rows all carry the same signature (order and
\* delivery time, courier name, value): `copies` rows, matched by
\* match_courier_id to courier_id (Null when no courier matched).  db.signatures
\* holds Ride.signature_key of the YOOGA deliveries, db.groups the
\* YoogaReviewGroup rows and db.items the YoogaReviewItem rows
import_yooga(s, order_date, today, signature, courier_id, fee_type, copies) ==
    LET r1 == get_or_create_week_for_date(s, order_date) IN
    IF r1.error # "NONE" THEN [db |-> r1.db, error |-> r1.error]
    ELSE
      LET redirected == r1.db.weeks[r1.week].status # "OPEN"
          r2 == IF redirected THEN get_open_week_for_date(r1.db, today) ELSE r1
      IN IF r2.error # "NONE" THEN [db |-> r2.db, error |-> r2.error]
         ELSE
           LET ops_week_id == r2.week
               needs_review == \/ copies > 1
                               \/ \E x \in s.signatures : x.signature_key = signature
               first == Len(s.rides)
               ride == [courier_id |-> courier_id,
                        fee_type |-> fee_type,
                        status |-> IF needs_review THEN "PENDENTE_REVISAO"
                                   ELSE IF courier_id # Null THEN "OK"
                                   ELSE "PENDENTE_ATRIBUICAO",
                        is_cancelled |-> "NULL",
                        order_date |-> order_date,
                        week_id |-> r1.week,
                        paid_in_week_id |-> IF redirected THEN r2.week ELSE Null]
               found == {g \in Idx(s.groups) : /\ s.groups[g].week_id = ops_week_id
                                               /\ s.groups[g].signature_key = signature}
               group_id == IF found # {} THEN CHOOSE g \in found : TRUE
                           ELSE Len(s.groups) + 1
               working ==
                   [r2.db EXCEPT
                      !.rides = @ \o [k \in 1..copies |-> ride],
                      !.signatures = @ \cup {[ride_id |-> first + k, signature_key |-> signature]
                                               : k \in 1..copies},
                      !.groups = IF needs_review /\ found = {}
                                 THEN Append(@, [week_id |-> ops_week_id,
                                                 signature_key |-> signature,
                                                 status |-> "PENDING"])
                                 ELSE @,
                      !.items = IF needs_review
                                THEN @ \cup {[group_id |-> group_id, ride_id |-> first + k]
                                               : k \in 1..copies}
                                ELSE @]
           IN [db |-> SessionCommit(s, working), error |-> "NONE"]

\* the deliveries of a group: yooga_group_items
GroupRides(s, group_id) == {x.ride_id : x \in {y \in s.items : y.group_id = group_id}}

\* the status an approved or kept delivery gets
ApprovedStatus(r) == IF r.courier_id # Null THEN "OK" ELSE "PENDENTE_ATRIBUICAO"

\* a resolution that approves deliveries as OK whether or not they have a
\* courier
ResolveApproveBlind(s, group_id, action, keep_ride_id) ==
    IF group_id \notin Idx(s.groups) THEN [db |-> s, error |-> "404"]
    ELSE IF action \notin {"APPROVE_ALL", "KEEP_ONE"} \/ (action = "KEEP_ONE" /\ keep_ride_id = Null)
    THEN [db |-> s, error |-> "400"]
    ELSE [db |-> [s EXCEPT
                    !.groups[group_id].status = "RESOLVED",
                    !.rides = [i \in Idx(s.rides) |->
                                 IF i \notin GroupRides(s, group_id) THEN s.rides[i]
                                 ELSE IF action = "KEEP_ONE" /\ i # keep_ride_id
                                 THEN [s.rides[i] EXCEPT !.status = "DESCARTADO"]
                                 ELSE [s.rides[i] EXCEPT !.status = "OK"]]],
          error |-> "NONE"]

resolve_yooga(s, group_id, action, keep_ride_id) ==
    IF group_id \notin Idx(s.groups) THEN [db |-> s, error |-> "404"]
    ELSE
      LET rides == GroupRides(s, group_id) IN
      IF action = "APPROVE_ALL"
      THEN [db |-> SessionCommit(s,
                     [s EXCEPT
                        !.groups[group_id].status = "RESOLVED",
                        !.rides = [i \in Idx(s.rides) |->
                                     IF i \in rides /\ s.rides[i].status = "PENDENTE_REVISAO"
                                     THEN [s.rides[i] EXCEPT !.status = ApprovedStatus(s.rides[i])]
                                     ELSE s.rides[i]]]),
            error |-> "NONE"]
      ELSE IF action = "KEEP_ONE"
      THEN IF keep_ride_id = Null THEN [db |-> SessionClose(s, s), error |-> "400"]
           ELSE [db |-> SessionCommit(s,
                          [s EXCEPT
                             !.groups[group_id].status = "RESOLVED",
                             !.rides = [i \in Idx(s.rides) |->
                                          IF i \notin rides THEN s.rides[i]
                                          ELSE IF i = keep_ride_id
                                          THEN [s.rides[i] EXCEPT !.status = ApprovedStatus(s.rides[i])]
                                          ELSE [s.rides[i] EXCEPT !.status = "DESCARTADO"]]]),
                 error |-> "NONE"]
      ELSE [db |-> SessionClose(s, s), error |-> "400"]

\* ================================================================ state machine
\* dates the requests of the model use: a Saturday and the Saturday after
Dates == {5, 12}
\* the day the requests are made: datetime.date.today()
Todays == {12}
\* the order dates of imported rows
ImportDates == {5}

\* ledger requests: an advance above the day's gain, a non-positive amount,
\* a credit, and a request naming a week that does not exist
CreateRequests ==
    {[courier_id |-> 1, week_id |-> 1, effective_date |-> 5, type |-> "VALE", amount |-> 12000],
     [courier_id |-> 1, week_id |-> 1, effective_date |-> 5, type |-> "VALE", amount |-> 0],
     [courier_id |-> 1, week_id |-> 1, effective_date |-> 5, type |-> "EXTRA", amount |-> 1000],
     [courier_id |-> 1, week_id |-> MaxWeeks + 1, effective_date |-> 5, type |-> "VALE", amount |-> 12000]}
\* the courier the operator assigns pending deliveries to
AssignCouriers == {2}

\* rows an import file can carry, after match_courier_id and the signature
\* collision test: matched, unmatched, matched and in review, unmatched and
\* cancelled
ImportRows ==
    {[courier_id |-> 1, fee_type |-> 10, is_cancelled |-> "NULL", needs_review |-> FALSE],
     [courier_id |-> Null, fee_type |-> 6, is_cancelled |-> "FALSE", needs_review |-> FALSE],
     [courier_id |-> 1, fee_type |-> 6, is_cancelled |-> "NULL", needs_review |-> TRUE],
     [courier_id |-> Null, fee_type |-> 10, is_cancelled |-> "TRUE", needs_review |-> FALSE]}

Handlers == {1, 2}
Idle == [h \in Handlers |-> [pc |-> "idle", week |-> Null, rows |-> <<>>, applied |-> 0]]
NoSplit == [total |-> 0, n |-> 1, parts |-> <<>>, error |-> "NONE", called |-> FALSE]

\* what the last request was and how it ended: the operation, the week it
\* named, the error it raised ("NONE" when it returned), whether the
\* committed store differs from the one it started on, and a note
Result(op, week, outcome, changed, info) ==
    [op |-> op, week |-> week, outcome |-> outcome, changed |-> changed, info |-> info]

\* stores the process can start on: the week of day 5, and optionally rows
\* written earlier (ledger entries, a loan plan laid out by
\* _create_loan_plan_with_installments, a delivery whose courier row was
\* deleted, which the foreign key turns into courier_id NULL)
Week1Db == get_or_create_week_for_date(EmptyDb, 5).db

InitLedgers ==
    {<<[courier_id |-> 1, week_id |-> 1, effective_date |-> 5, type |-> "EXTRA", amount |-> 2000],
       [courier_id |-> 1, week_id |-> 1, effective_date |-> 5, type |-> "VALE", amount |-> 500]>>}

InitLoanTotals == {5000}

InitRides ==
    {<<>>,
     <<[courier_id |-> Null, fee_type |-> 6, status |-> "OK", is_cancelled |-> "FALSE",
        order_date |-> 5, week_id |-> 1, paid_in_week_id |-> Null]>>}

InitStores ==
    {LET s1 == [Week1Db EXCEPT !.ledger = l, !.rides = r]
     IN IF t = 0 THEN s1
        ELSE _create_loan_plan_with_installments(s1, 1, 1, t, DEFAULT_LOAN_INSTALLMENTS)
     : l \in InitLedgers, t \in InitLoanTotals, r \in InitRides}

Init ==
    /\ db \in InitStores
    /\ last = Result("init", Null, "NONE", FALSE, FALSE)
    /\ handlers = Idle
    /\ split = NoSplit

\* the inputs under which the advance is expected to be granted: a positive
\* amount, a known courier, an existing OPEN week and a date inside it
ValidAdvance(s, courier_id, week_id, effective_date, amount) ==
    /\ amount > 0
    /\ courier_id \in Couriers
    /\ week_id \in Idx(s.weeks)
    /\ s.weeks[week_id].status = "OPEN"
    /\ effective_date >= s.weeks[week_id].start_date
    /\ effective_date <= s.weeks[week_id].end_date

GetOrCreateWeekForDate ==
    \E d \in Dates :
        LET r == get_or_create_week_for_date(db, d) IN
        /\ Len(r.db.weeks) <= MaxWeeks
        /\ db' = r.db
        /\ last' = Result("get_or_create_week_for_date", Null, r.error, r.db # db, FALSE)
        /\ UNCHANGED <<handlers, split>>

GetOpenWeekForDate ==
    \E d \in Dates :
        LET r == get_open_week_for_date(db, d) IN
        /\ Len(r.db.weeks) <= MaxWeeks
        /\ db' = r.db
        /\ last' = Result("get_open_week_for_date", Null, r.error, r.db # db, FALSE)
        /\ UNCHANGED <<handlers, split>>

ImportRow ==
    \E order_date \in ImportDates, today \in Todays, row \in ImportRows :
        LET r == import_row(db, order_date, today, row.courier_id, row.fee_type,
                            row.is_cancelled, row.needs_review) IN
        /\ Len(db.rides) < MaxRides
        /\ Len(r.db.weeks) <= MaxWeeks
        /\ db' = r.db
        /\ last' = Result("import", Null, r.error, r.db # db, FALSE)
        /\ UNCHANGED <<handlers, split>>

AssignRide ==
    \E ride_id \in 1..MaxRides, courier_id \in AssignCouriers,
       pay_in_current_week \in BOOLEAN, today \in Todays :
        LET r == assign_ride(db, ride_id, courier_id, pay_in_current_week, today) IN
        /\ Len(r.db.weeks) <= MaxWeeks
        /\ db' = r.db
        /\ last' = Result("assign_ride", Null, r.error, r.db # db, FALSE)
        /\ UNCHANGED <<handlers, split>>

CreateLedgerEntry ==
    \E q \in CreateRequests :
        LET r == create_ledger_entry(db, q.courier_id, q.week_id, q.effective_date,
                                     q.type, q.amount) IN
        /\ db' = r.db
        /\ last' = Result("create_ledger_entry", Null, r.error, r.db # db,
                          [type |-> q.type,
                           valid |-> ValidAdvance(db, q.courier_id, q.week_id,
                                                  q.effective_date, q.amount)])
        /\ UNCHANGED <<handlers, split>>

DeleteLedgerEntry ==
    \E ledger_id \in {1} :
        LET r == delete_ledger_entry(db, ledger_id) IN
        /\ db' = r.db
        /\ last' = Result("delete_ledger_entry", Null, r.error, r.db # db, FALSE)
        /\ UNCHANGED <<handlers, split>>

CloseWeek ==
    \E week_id \in 1..MaxWeeks :
        LET r == close_week(db, week_id, now(db)) IN
        /\ db' = r.db
        /\ last' = Result("close_week", week_id, r.error, r.db # db, FALSE)
        /\ UNCHANGED <<handlers, split>>

\* close_week passes its checks and an exception is raised in the loop over
\* rows: after k whole iterations (mid = FALSE), or inside iteration k + 1,
\* after its installment statements and before its plan update (mid = TRUE).
\* The request ends in get_db's finally block.
CloseWeekFault ==
    \E week_id \in 1..MaxWeeks, k \in 0..Cardinality(Couriers), mid \in BOOLEAN :
        /\ CloseError(db, week_id) = "NONE"
        /\ LET rows == compute_week_payout_preview(db, week_id)
               wk == CloseWorking(db, week_id, rows, k, now(db))
               working == IF mid /\ rows[k + 1].courier_id # Null
                          THEN CourierInstallments(wk, week_id, rows[k + 1])
                          ELSE wk
           IN /\ k < Len(rows)
              /\ db' = SessionClose(db, working)
              /\ last' = Result("close_week", week_id, "FAULT",
                                SessionClose(db, working) # db, working # db)
        /\ UNCHANGED <<handlers, split>>

PayWeek ==
    \E week_id \in 1..MaxWeeks :
        LET r == pay_week(db, week_id, now(db)) IN
        /\ db' = r.db
        /\ last' = Result("pay_week", week_id, r.error, r.db # db, FALSE)
        /\ UNCHANGED <<handlers, split>>

Next ==
    \/ GetOrCreateWeekForDate
    \/ GetOpenWeekForDate
    \/ ImportRow
    \/ AssignRide
    \/ CreateLedgerEntry
    \/ DeleteLedgerEntry
    \/ CloseWeek
    \/ CloseWeekFault
    \/ PayWeek

Spec == Init /\ [][Next]_vars

\* ================================================================ properties
AllWeeks == Idx(db.weeks)

\* C1: a week's status only moves OPEN -> CLOSED, by close_week, and
\* CLOSED -> PAID, by pay_week; no step moves it otherwise and no week is removed
StatusForward ==
    [][/\ Len(db'.weeks) >= Len(db.weeks)
       /\ \A w \in AllWeeks :
            \/ db'.weeks[w].status = db.weeks[w].status
            \/ /\ db.weeks[w].status = "OPEN"
               /\ db'.weeks[w].status = "CLOSED"
               /\ last'.op = "close_week" /\ last'.week = w
            \/ /\ db.weeks[w].status = "CLOSED"
               /\ db'.weeks[w].status = "PAID"
               /\ last'.op = "pay_week" /\ last'.week = w]_vars

\* a week went through CLOSED to PAID
StatusForwardWitness ==
    /\ last.op = "pay_week" /\ last.outcome = "NONE" /\ last.changed
    /\ db.weeks[last.week].status = "PAID"

\* the deliveries the gate is about, in the words of the contract
BlockingPending(s, w) ==
    {i \in Idx(s.rides) :
        /\ \/ (s.rides[i].week_id = w /\ s.rides[i].paid_in_week_id = Null)
           \/ s.rides[i].paid_in_week_id = w
        /\ s.rides[i].is_cancelled # "TRUE"
        /\ s.rides[i].status \in {"PENDENTE_ATRIBUICAO", "PENDENTE_REVISAO", "PENDENTE_MATCH"}}

BlockingUnassigned(s, w) ==
    {i \in Idx(s.rides) :
        /\ \/ (s.rides[i].week_id = w /\ s.rides[i].paid_in_week_id = Null)
           \/ s.rides[i].paid_in_week_id = w
        /\ s.rides[i].is_cancelled # "TRUE"
        /\ s.rides[i].status = "OK"
        /\ s.rides[i].courier_id = Null}

\* C2: closing an OPEN week that has an in-scope pending delivery or an
\* in-scope unassigned OK delivery fails with WEEK_HAS_PENDINGS and leaves the
\* whole store (snapshot rows, loan state, week status) as it was
ClosingGate ==
    /\ \A w \in AllWeeks :
         (/\ db.weeks[w].status = "OPEN"
          /\ BlockingPending(db, w) \cup BlockingUnassigned(db, w) # {})
         => close_week(db, w, now(db)) = [db |-> db, error |-> "WEEK_HAS_PENDINGS"]
    /\ (last.op = "close_week" /\ last.outcome = "WEEK_HAS_PENDINGS")
         => (~last.changed /\ db.weeks[last.week].status = "OPEN"
             /\ ~\E p \in db.payouts : p.week_id = last.week)

\* a close was refused for an unassigned OK delivery alone
ClosingGateWitness ==
    /\ last.op = "close_week" /\ last.outcome = "WEEK_HAS_PENDINGS"
    /\ BlockingPending(db, last.week) = {}
    /\ BlockingUnassigned(db, last.week) # {}

\* C3: a close that fails after it started to replace the snapshot leaves the
\* committed store exactly as it was: week OPEN, snapshot rows, installments,
\* applications and plans unchanged
ClosingAtomicity ==
    (last.op = "close_week" /\ last.outcome = "FAULT")
      => (/\ ~last.changed
          /\ db.weeks[last.week].status = "OPEN"
          /\ ~\E p \in db.payouts : p.week_id = last.week
          /\ ~\E a \in Idx(db.applications) : db.applications[a].week_id = last.week)

\* a close failed after it had written to its session
ClosingAtomicityWitness ==
    last.op = "close_week" /\ last.outcome = "FAULT" /\ last.info = TRUE

\* C5: close on a CLOSED or PAID week fails with WEEK_NOT_OPEN, pay on an OPEN
\* or PAID week fails with WEEK_NOT_CLOSED, and neither changes the store
\* (a second pay leaves paid_at as stamped)
WrongStateRejected ==
    /\ \A w \in AllWeeks :
         db.weeks[w].status \in {"CLOSED", "PAID"}
           => close_week(db, w, now(db)) = [db |-> db, error |-> "WEEK_NOT_OPEN"]
    /\ \A w \in AllWeeks :
         db.weeks[w].status \in {"OPEN", "PAID"}
           => pay_week(db, w, now(db)) = [db |-> db, error |-> "WEEK_NOT_CLOSED"]
    /\ last.outcome \in {"WEEK_NOT_OPEN", "WEEK_NOT_CLOSED"} => ~last.changed

\* pay was refused on a PAID week whose rows carry their stamp
WrongStateRejectedWitness ==
    /\ last.op = "pay_week" /\ last.outcome = "WEEK_NOT_CLOSED"
    /\ db.weeks[last.week].status = "PAID"
    /\ \E p \in db.payouts : p.week_id = last.week /\ p.paid_at # Null

\* C7: a VALE request r on valid inputs returns vale_amount =
\* min(r, max(0, day_gain - existing_vales)) and loan_amount = r - vale_amount,
\* records a VALE entry iff vale_amount > 0 and a plan of loan_amount iff
\* loan_amount > 0
AdvanceCap ==
    \A q \in CreateRequests :
      (q.type = "VALE" /\ ValidAdvance(db, q.courier_id, q.week_id, q.effective_date, q.amount))
      => LET r == create_ledger_entry(db, q.courier_id, q.week_id, q.effective_date,
                                      q.type, q.amount)
             cap == Max(0, day_gain(db, q.courier_id, q.week_id, q.effective_date)
                           - existing_vales(db, q.courier_id, q.week_id, q.effective_date))
             vale == Min(q.amount, cap)
         IN /\ r.error = "NONE"
            /\ r.result.vale_amount = vale
            /\ r.result.loan_amount = q.amount - vale
            /\ Len(r.db.ledger) = Len(db.ledger) + (IF vale > 0 THEN 1 ELSE 0)
            /\ Len(r.db.plans) = Len(db.plans) + (IF q.amount - vale > 0 THEN 1 ELSE 0)

\* C8: a VALE request with a positive amount, a known courier, an existing
\* OPEN week and a date inside it returns a result, never an error
ValeAlwaysSucceeds ==
    (last.op = "create_ledger_entry" /\ last.info.type = "VALE" /\ last.info.valid)
      => last.outcome = "NONE"

\* ================================================================ SpecSplit
\* _split_amount_cent on its own: the inputs are drawn at the start, the call
\* is the only step
SplitTotals == 0..MaxTotal
SplitCounts == 0..MaxN

InitSplit ==
    /\ db = EmptyDb
    /\ last = Result("init", Null, "NONE", FALSE, FALSE)
    /\ handlers = Idle
    /\ split \in {[NoSplit EXCEPT !.total = t, !.n = n] : t \in SplitTotals, n \in SplitCounts}

SplitAmountCent ==
    /\ ~split.called
    /\ split' = IF SplitRaises(split.n)
                THEN [split EXCEPT !.called = TRUE, !.error = "ValueError"]
                ELSE [split EXCEPT !.called = TRUE,
                                   !.parts = _split_amount_cent(split.total, split.n)]
    /\ UNCHANGED <<db, last, handlers>>

NextSplit == SplitAmountCent

SpecSplit == InitSplit /\ [][NextSplit]_vars

\* C6: splitting a total of whole cents (total >= 0) into n >= 1 installments
\* gives exactly n amounts whose sum is the total; the first n-1 all equal
\* floor(total / n) and only the last one carries the remainder
SplitExact ==
    (split.called /\ split.n >= 1)
      => /\ split.error = "NONE"
         /\ Len(split.parts) = split.n
         /\ SumSeq(split.parts) = split.total
         /\ \A k \in 1..(split.n - 1) : split.parts[k] = split.total \div split.n
         /\ split.parts[split.n] = (split.total \div split.n) + (split.total % split.n)

\* a split whose last installment carries a remainder
SplitExactWitness ==
    /\ split.called /\ split.n >= 2
    /\ split.total % split.n # 0
    /\ split.parts[split.n] > split.parts[1]

\* ================================================================ SpecWeeks
\* the week store alone, from an empty database: weeks are resolved for dates
\* in any order, looked up through the open-week walk, closed and paid
WeekDates == {1, 5, 12}

InitWeeks ==
    /\ db = EmptyDb
    /\ last = Result("init", Null, "NONE", FALSE, FALSE)
    /\ handlers = Idle
    /\ split = NoSplit

ResolveWeekForDate ==
    \E d \in WeekDates :
        LET r == get_or_create_week_for_date(db, d) IN
        /\ Len(r.db.weeks) <= MaxStoreWeeks
        /\ db' = r.db
        /\ last' = Result("get_or_create_week_for_date", r.week, r.error, r.db # db, d)
        /\ UNCHANGED <<handlers, split>>

OpenWeekOnOrAfter ==
    \E d \in WeekDates :
        LET r == get_open_week_for_date(db, d) IN
        /\ Len(r.db.weeks) <= MaxStoreWeeks
        /\ db' = r.db
        /\ last' = Result("get_open_week_for_date", r.week, r.error, r.db # db, d)
        /\ UNCHANGED <<handlers, split>>

CloseStoredWeek ==
    \E week_id \in 1..MaxStoreWeeks :
        LET r == close_week(db, week_id, now(db)) IN
        /\ r.error = "NONE"
        /\ db' = r.db
        /\ last' = Result("close_week", week_id, r.error, r.db # db, FALSE)
        /\ UNCHANGED <<handlers, split>>

PayStoredWeek ==
    \E week_id \in 1..MaxStoreWeeks :
        LET r == pay_week(db, week_id, now(db)) IN
        /\ r.error = "NONE"
        /\ db' = r.db
        /\ last' = Result("pay_week", week_id, r.error, r.db # db, FALSE)
        /\ UNCHANGED <<handlers, split>>

NextWeeks ==
    \/ ResolveWeekForDate
    \/ OpenWeekOnOrAfter
    \/ CloseStoredWeek
    \/ PayStoredWeek

SpecWeeks == InitWeeks /\ [][NextWeeks]_vars

\* C9: any two distinct weeks A, B of the store satisfy
\* A.end_date < B.start_date or B.end_date < A.start_date
WeekNonOverlap ==
    \A a, b \in AllWeeks :
        a # b => \/ db.weeks[a].end_date < db.weeks[b].start_date
                 \/ db.weeks[b].end_date < db.weeks[a].start_date

\* a week was created next to existing ones, and a date of an existing week
\* was resolved again without creating one
WeekNonOverlapWitness ==
    /\ Len(db.weeks) >= 2
    /\ last.op = "get_or_create_week_for_date" /\ last.outcome = "NONE"
    /\ ~last.changed
    /\ last.week # Null /\ last.week < Len(db.weeks)

\* C10: every week gets a closing_seq strictly greater than that of every week
\* created before it (weeks are stored in creation order), so no two weeks
\* share a closing_seq, whatever the order of their dates
ClosingSeqIncreasing ==
    \A a, b \in AllWeeks :
        a < b => db.weeks[a].closing_seq < db.weeks[b].closing_seq

\* a week for an earlier date was created after a week for a later date
ClosingSeqIncreasingWitness ==
    /\ Len(db.weeks) >= 2
    /\ last.op = "get_or_create_week_for_date" /\ last.changed
    /\ last.week = Len(db.weeks)
    /\ db.weeks[last.week].start_date < db.weeks[1].start_date
    /\ db.weeks[last.week].closing_seq > db.weeks[1].closing_seq

\* ================================================================= SpecConc
\* two request handlers run close_week at the same time, each on its own
\* session.  A handler's statements are grouped at the points where another
\* session's commit can fall without a lock or a key conflict between them:
\* after the status check (line 171), and after the gate (line 188).  The
\* write phase (lines 191-292) reads the committed store as it is when it runs:
\* the DELETE and the raw SQL of _get_due_installments are not cached, the rows
\* of the preview are the ones computed before.
ConcWeeks == {1, 2}

ConcLedgers ==
    {<<[courier_id |-> 1, week_id |-> 2, effective_date |-> 12, type |-> "EXTRA", amount |-> 1000]>>,
     <<[courier_id |-> 1, week_id |-> 1, effective_date |-> 5, type |-> "EXTRA", amount |-> 2000],
       [courier_id |-> 2, week_id |-> 2, effective_date |-> 12, type |-> "EXTRA", amount |-> 700]>>}

\* stores with the weeks of day 5 and day 12, ledger entries and a loan plan
ConcStores ==
    {_create_loan_plan_with_installments(
        [get_or_create_week_for_date(Week1Db, 12).db EXCEPT !.ledger = l],
        c, 1, 5000, DEFAULT_LOAN_INSTALLMENTS)
     : l \in ConcLedgers, c \in Couriers}

InitConc ==
    /\ db \in ConcStores
    /\ last = Result("init", Null, "NONE", FALSE, FALSE)
    /\ handlers = Idle
    /\ split = NoSplit

\* lines 169-171: load the week, check its status
ConcCloseCheck(h) ==
    \E week_id \in ConcWeeks :
        /\ handlers[h].pc = "idle"
        /\ handlers' = [handlers EXCEPT ![h] =
              IF week_id \in Idx(db.weeks) /\ CloseStatusOk(db, week_id)
              THEN [@ EXCEPT !.pc = "checked", !.week = week_id]
              ELSE [@ EXCEPT !.pc = "failed", !.week = week_id]]
        /\ UNCHANGED <<db, last, split>>

\* lines 173-188: overlap validation, preview, gate
ConcClosePreview(h) ==
    LET week_id == handlers[h].week
        rows == compute_week_payout_preview(db, week_id)
    IN /\ handlers[h].pc = "checked"
       /\ handlers' = [handlers EXCEPT ![h] =
             IF /\ validate_no_week_overlap(db, db.weeks[week_id].start_date,
                                            db.weeks[week_id].end_date, week_id)
                /\ ~HasPendings(rows)
             THEN [@ EXCEPT !.pc = "previewed", !.rows = rows]
             ELSE [@ EXCEPT !.pc = "failed"]]
       /\ UNCHANGED <<db, last, split>>

\* lines 191-292: delete, loop over the rows, status CLOSED, commit
ConcCloseWrite(h) ==
    LET week_id == handlers[h].week
        rows == handlers[h].rows
        w1 == CloseWorking(db, week_id, rows, Len(rows), now(db))
        w2 == [w1 EXCEPT !.weeks[week_id].status = "CLOSED"]
    IN /\ handlers[h].pc = "previewed"
       /\ db' = SessionCommit(db, w2)
       /\ handlers' = [handlers EXCEPT ![h] =
             [@ EXCEPT !.pc = "closed",
                       !.applied = Len(w2.applications) - Len(db.applications)]]
       /\ last' = Result("close_week", week_id, "NONE", SessionCommit(db, w2) # db, h)
       /\ UNCHANGED split

\* a third request pays a week
ConcPayWeek ==
    \E week_id \in ConcWeeks :
        LET r == pay_week(db, week_id, now(db)) IN
        /\ r.error = "NONE"
        /\ db' = r.db
        /\ last' = Result("pay_week", week_id, r.error, r.db # db, FALSE)
        /\ UNCHANGED <<handlers, split>>

NextConc ==
    \/ \E h \in Handlers : ConcCloseCheck(h)
    \/ \E h \in Handlers : ConcClosePreview(h)
    \/ \E h \in Handlers : ConcCloseWrite(h)
    \/ ConcPayWeek

SpecConc == InitConc /\ [][NextConc]_vars

\* C4: of two close_week calls running at the same time on the same OPEN week
\* at most one commits the CLOSED transition, and at most one of them pays
\* down the due installments for that week
CloseSerialized ==
    \A g, h \in Handlers :
        (g # h /\ handlers[g].week = handlers[h].week)
          => /\ ~(handlers[g].pc = "closed" /\ handlers[h].pc = "closed")
             /\ ~(handlers[g].applied > 0 /\ handlers[h].applied > 0)

\* ================================================================ SpecLoans
\* previews and closes over several weeks of a store that holds ledger entries
\* and a loan plan of courier 1 laid out at week 1: the weeks of days 5, 12,
\* 19, ..., EXTRAs of courier 1 (a large one in at most one week, the same
\* small one or none in the others), a VALE of courier 1 in week 1, an EXTRA
\* of courier 2 in week 2
ExtraChoices == {0, 1000}
LargeExtra == 6000
ValeChoices == {0, 2000}
LoanTotals == {5000, 2}

RECURSIVE LoanWeeksDb(_)
LoanWeeksDb(n) ==
    IF n = 0 THEN EmptyDb
    ELSE get_or_create_week_for_date(LoanWeeksDb(n - 1), 5 + 7 * (n - 1)).db

RECURSIVE LoanLedger(_, _)
LoanLedger(e, n) ==
    IF n = 0 THEN <<>>
    ELSE LoanLedger(e, n - 1) \o
         (IF e[n] = 0 THEN <<>>
          ELSE <<[courier_id |-> 1, week_id |-> n, effective_date |-> 5 + 7 * (n - 1),
                  type |-> "EXTRA", amount |-> e[n]]>>)

LoanStores ==
    {LET fixed == <<[courier_id |-> 2, week_id |-> 2, effective_date |-> 12,
                     type |-> "EXTRA", amount |-> 700]>>
         vale == IF v = 0 THEN <<>>
                 ELSE <<[courier_id |-> 1, week_id |-> 1, effective_date |-> 5,
                         type |-> "VALE", amount |-> v]>>
         s1 == [LoanWeeksDb(MaxLoanWeeks) EXCEPT
                  !.ledger = LoanLedger(e, MaxLoanWeeks) \o vale \o fixed]
     IN _create_loan_plan_with_installments(s1, 1, 1, t, DEFAULT_LOAN_INSTALLMENTS)
     : e \in {[n \in 1..MaxLoanWeeks |-> IF n = rich THEN LargeExtra ELSE b] :
               rich \in 0..MaxLoanWeeks, b \in ExtraChoices},
       v \in ValeChoices, t \in LoanTotals}

InitLoans ==
    /\ db \in LoanStores
    /\ last = Result("init", Null, "NONE", FALSE, FALSE)
    /\ handlers = Idle
    /\ split = NoSplit

\* GET /weeks/{week_id}/payouts/preview
LoansPreview ==
    \E week_id \in 1..MaxLoanWeeks :
        /\ db' = SessionClose(db, db)
        /\ last' = Result("compute_week_payout_preview", week_id, "NONE", FALSE,
                          compute_week_payout_preview(db, week_id))
        /\ UNCHANGED <<handlers, split>>

\* closes that pass the checks (the refusals are steps of Spec)
LoansCloseWeek ==
    \E week_id \in 1..MaxLoanWeeks :
        LET r == close_week(db, week_id, now(db)) IN
        /\ r.error = "NONE"
        /\ db' = r.db
        /\ last' = Result("close_week", week_id, r.error, r.db # db, FALSE)
        /\ UNCHANGED <<handlers, split>>

NextLoans ==
    \/ LoansPreview
    \/ LoansCloseWeek

SpecLoans == InitLoans /\ [][NextLoans]_vars

\* the installments eligible for courier c at closing_seq S, in the words of
\* the contract
Eligible(s, c, S) ==
    {i \in Idx(s.installments) :
        /\ s.plans[s.installments[i].plan_id].courier_id = c
        /\ s.plans[s.installments[i].plan_id].status = "ACTIVE"
        /\ s.installments[i].status \in {"DUE", "PARTIAL", "ROLLED"}
        /\ s.installments[i].due_closing_seq <= S}

Remaining(s, i) == s.installments[i].amount - s.installments[i].paid_amount

\* application rows of week w on installments of courier c
AppliedRows(s, w, c) ==
    {a \in Idx(s.applications) :
        /\ s.applications[a].week_id = w
        /\ s.plans[s.installments[s.applications[a].installment_id].plan_id].courier_id = c}

AppliedTotal(s, w, c) ==
    SumSet(AppliedRows(s, w, c), [a \in Idx(s.applications) |-> s.applications[a].applied_amount])

\* the OPEN weeks a close goes through on, and the store it commits
Closable(w) == w \in AllWeeks /\ CloseError(db, w) = "NONE"
Closed(w) == close_week(db, w, now(db)).db

\* C11: in every snapshot row written by a close, installments_amount is the
\* sum of the application rows inserted for that week and courier and lies
\* between 0 and max(0, rides + extras - vales); when the pre-installment net
\* covers everything that is due it equals the total remaining due
InstallmentsAmountApplied ==
    /\ \A p \in db.payouts :
         /\ p.installments_amount = AppliedTotal(db, p.week_id, p.courier_id)
         /\ 0 <= p.installments_amount
         /\ p.installments_amount <= Max(0, p.rides_amount + p.extras_amount - p.vales_amount)
    /\ \A w \in AllWeeks : Closable(w) =>
         \A p \in Closed(w).payouts : p.week_id = w =>
            LET due == Eligible(db, p.courier_id, db.weeks[w].closing_seq)
                total == SumSet(due, [i \in Idx(db.installments) |-> Remaining(db, i)])
            IN p.rides_amount + p.extras_amount - p.vales_amount >= total
                 => (p.installments_amount = total /\ AppliedTotal(Closed(w), w, p.courier_id) = total)

\* a close took all that was due out of a net that covers it
InstallmentsAmountAppliedWitness ==
    /\ last.op = "close_week" /\ last.outcome = "NONE"
    /\ \E p \in db.payouts :
         /\ p.week_id = last.week
         /\ p.installments_amount > 0
         /\ p.net_amount > 0
         /\ ~p.is_flag_red

\* net_amount = rides + extras - vales - installments, and a negative
\* pre-installment net leaves installments at 0
NetFormula(r) ==
    LET pre == r.rides_amount + r.extras_amount - r.vales_amount
    IN /\ r.net_amount = pre - r.installments_amount
       /\ pre < 0 => (r.installments_amount = 0 /\ r.net_amount = pre)

\* C12: every preview row and every WeekPayout row has net_amount =
\* rides_amount + extras_amount - vales_amount - installments_amount; a courier
\* with a negative pre-installment net gets installments_amount = 0 and that
\* negative net
NetAmountFormula ==
    /\ \A p \in db.payouts : NetFormula(p)
    /\ last.op = "compute_week_payout_preview"
         => \A k \in Idx(last.info) : NetFormula(last.info[k])
    /\ \A w \in AllWeeks :
         LET rows == compute_week_payout_preview(db, w)
         IN \A k \in Idx(rows) : NetFormula(rows[k])

\* a close wrote a row with a negative net for a courier who has installments due
NetAmountFormulaWitness ==
    /\ last.op = "close_week" /\ last.outcome = "NONE"
    /\ \E p \in db.payouts :
         /\ p.week_id = last.week
         /\ p.net_amount < 0
         /\ p.installments_amount = 0
         /\ p.is_flag_red

\* couriers a close of week w processes: those with a row in its snapshot
Processed(w) == {p.courier_id : p \in {q \in Closed(w).payouts : q.week_id = w}}

\* C13: after a close at closing_seq S every installment that was eligible for
\* a processed courier is either PAID with remaining <= 0 and its
\* due_closing_seq unchanged, or has remaining > 0, status PARTIAL (something
\* was applied) or ROLLED (nothing was applied) and due_closing_seq increased
\* by exactly 1; none is left DUE
InstallmentOutcomes ==
    \A w \in AllWeeks : Closable(w) =>
      \A c \in Processed(w) :
        \A i \in Eligible(db, c, db.weeks[w].closing_seq) :
          LET a == db.installments[i]
              b == Closed(w).installments[i]
          IN \/ /\ Remaining(Closed(w), i) <= 0
                /\ b.status = "PAID"
                /\ b.due_closing_seq = a.due_closing_seq
             \/ /\ Remaining(Closed(w), i) > 0
                /\ b.status = (IF b.paid_amount > a.paid_amount THEN "PARTIAL" ELSE "ROLLED")
                /\ b.due_closing_seq = a.due_closing_seq + 1

\* the same statement for installments of a positive amount
InstallmentOutcomesPositive ==
    \A w \in AllWeeks : Closable(w) =>
      \A c \in Processed(w) :
        \A i \in Eligible(db, c, db.weeks[w].closing_seq) :
          LET a == db.installments[i]
              b == Closed(w).installments[i]
          IN a.amount > 0 =>
             \/ /\ Remaining(Closed(w), i) <= 0
                /\ b.status = "PAID"
                /\ b.due_closing_seq = a.due_closing_seq
             \/ /\ Remaining(Closed(w), i) > 0
                /\ b.status = (IF b.paid_amount > a.paid_amount THEN "PARTIAL" ELSE "ROLLED")
                /\ b.due_closing_seq = a.due_closing_seq + 1

\* i comes before j in ascending (due_closing_seq, installment_no) order
OrderedBefore(s, i, j) ==
    \/ s.installments[i].due_closing_seq < s.installments[j].due_closing_seq
    \/ /\ s.installments[i].due_closing_seq = s.installments[j].due_closing_seq
       /\ s.installments[i].installment_no < s.installments[j].installment_no

\* what a close of week w applied to installment i
AppliedTo(w, i) == Closed(w).installments[i].paid_amount - db.installments[i].paid_amount

\* C14: a close at closing_seq S touches only installments of ACTIVE plans of
\* the processed couriers with status in {DUE, PARTIAL, ROLLED} and
\* due_closing_seq <= S, all of those with something left to pay, and applies
\* the budget in ascending (due_closing_seq, installment_no) order with
\* applied = min(budget left, remaining): an installment gets a positive
\* application only if every installment ordered before it ends fully paid
InstallmentOrder ==
    \A w \in AllWeeks : Closable(w) =>
      LET S == db.weeks[w].closing_seq
          post == Closed(w)
      IN /\ \A i \in Idx(db.installments) :
              post.installments[i] # db.installments[i]
                => \E c \in Processed(w) : i \in Eligible(db, c, S)
         /\ \A a \in Idx(post.applications) \ Idx(db.applications) :
              /\ post.applications[a].week_id = w
              /\ \E c \in Processed(w) : post.applications[a].installment_id \in Eligible(db, c, S)
         /\ \A p \in post.payouts : p.week_id = w =>
              LET due == Eligible(db, p.courier_id, S)
              IN \A j \in due :
                   LET before == {i \in due : OrderedBefore(db, i, j)}
                       spent == SumSet(before, [i \in Idx(db.installments) |-> AppliedTo(w, i)])
                   IN /\ AppliedTo(w, j) = Min(p.installments_amount - spent, Remaining(db, j))
                      /\ Remaining(db, j) > 0 => post.installments[j] # db.installments[j]
                      /\ AppliedTo(w, j) > 0 => \A i \in before : Remaining(post, i) = 0

\* a close paid one installment off and applied the rest of the budget to the
\* next one
InstallmentOrderWitness ==
    /\ last.op = "close_week" /\ last.outcome = "NONE"
    /\ \E a, b \in Idx(db.applications) :
         /\ db.applications[a].week_id = last.week
         /\ db.applications[b].week_id = last.week
         /\ db.installments[db.applications[a].installment_id].status = "PAID"
         /\ db.installments[db.applications[b].installment_id].status = "PARTIAL"

\* plan p of store s has an installment that is still open
HasOpenInstallment(s, p) ==
    \E i \in Idx(s.installments) :
        s.installments[i].plan_id = p /\ s.installments[i].status \in {"DUE", "PARTIAL", "ROLLED"}

\* C15: after a close has processed a courier, each of the courier's plans is
\* DONE iff it was ACTIVE or DONE before and none of its installments is in
\* {DUE, PARTIAL, ROLLED}; no DONE plan ever has such an installment
PlanCompletion ==
    /\ \A p \in Idx(db.plans) : db.plans[p].status = "DONE" => ~HasOpenInstallment(db, p)
    /\ \A w \in AllWeeks : Closable(w) =>
         \A p \in Idx(db.plans) : db.plans[p].courier_id \in Processed(w) =>
            (Closed(w).plans[p].status = "DONE"
               <=> (db.plans[p].status \in {"ACTIVE", "DONE"} /\ ~HasOpenInstallment(Closed(w), p)))

\* the close that paid a plan's last open installment left the plan DONE
PlanCompletionWitness ==
    /\ last.op = "close_week" /\ last.outcome = "NONE"
    /\ \E p \in Idx(db.plans) :
         /\ db.plans[p].status = "DONE"
         /\ \E a \in Idx(db.applications) :
              /\ db.applications[a].week_id = last.week
              /\ db.installments[db.applications[a].installment_id].plan_id = p

\* C17: a preview of a week that has not been closed returns
\* installments_amount = 0 in every row, even for a courier with due
\* installments
PreviewModeZero ==
    (last.op = "compute_week_payout_preview" /\ db.weeks[last.week].status = "OPEN")
      => \A k \in Idx(last.info) : last.info[k].installments_amount = 0

\* ============================================================= SpecSnapshots
\* every operation over two weeks: deliveries are imported for week 1 and
\* assigned, before and after week 1 is closed (late ones are redirected to
\* the open week of today), ledger requests are made, weeks are closed and
\* paid.  Requests that are refused are steps of Spec; here only the ledger
\* creation, which never succeeds, is kept with its error
SnapStores == {s \in InitStores : s.rides = <<>>}

SnapImportRows ==
    {[courier_id |-> 1, fee_type |-> 10, is_cancelled |-> "NULL", needs_review |-> FALSE],
     [courier_id |-> Null, fee_type |-> 6, is_cancelled |-> "FALSE", needs_review |-> FALSE]}

SnapRequests ==
    {[courier_id |-> 1, week_id |-> 1, effective_date |-> 5, type |-> "EXTRA", amount |-> 1000]}

InitSnapshots ==
    /\ db \in SnapStores
    /\ last = Result("init", Null, "NONE", FALSE, FALSE)
    /\ handlers = Idle
    /\ split = NoSplit

SnapImportRow ==
    \E order_date \in ImportDates, today \in Todays, row \in SnapImportRows :
        LET r == import_row(db, order_date, today, row.courier_id, row.fee_type,
                            row.is_cancelled, row.needs_review) IN
        /\ Len(db.rides) < MaxSnapRides
        /\ Len(r.db.weeks) <= MaxSnapWeeks
        /\ r.error = "NONE"
        /\ db' = r.db
        /\ last' = Result("import", Null, r.error, r.db # db, FALSE)
        /\ UNCHANGED <<handlers, split>>

SnapAssignRide ==
    \E ride_id \in 1..MaxSnapRides, courier_id \in AssignCouriers,
       pay_in_current_week \in BOOLEAN, today \in Todays :
        LET r == assign_ride(db, ride_id, courier_id, pay_in_current_week, today) IN
        /\ Len(r.db.weeks) <= MaxSnapWeeks
        /\ r.error = "NONE"
        /\ db' = r.db
        /\ last' = Result("assign_ride", Null, r.error, r.db # db, FALSE)
        /\ UNCHANGED <<handlers, split>>

SnapCreateLedgerEntry ==
    \E q \in SnapRequests :
        LET r == create_ledger_entry(db, q.courier_id, q.week_id, q.effective_date,
                                     q.type, q.amount) IN
        /\ db' = r.db
        /\ last' = Result("create_ledger_entry", Null, r.error, r.db # db, FALSE)
        /\ UNCHANGED <<handlers, split>>

SnapDeleteLedgerEntry ==
    \E ledger_id \in {1} :
        LET r == delete_ledger_entry(db, ledger_id) IN
        /\ r.error = "NONE"
        /\ db' = r.db
        /\ last' = Result("delete_ledger_entry", Null, r.error, r.db # db, FALSE)
        /\ UNCHANGED <<handlers, split>>

SnapCloseWeek ==
    \E week_id \in 1..MaxSnapWeeks :
        LET r == close_week(db, week_id, now(db)) IN
        /\ r.error = "NONE"
        /\ db' = r.db
        /\ last' = Result("close_week", week_id, r.error, r.db # db, FALSE)
        /\ UNCHANGED <<handlers, split>>

SnapPayWeek ==
    \E week_id \in 1..MaxSnapWeeks :
        LET r == pay_week(db, week_id, now(db)) IN
        /\ r.error = "NONE"
        /\ db' = r.db
        /\ last' = Result("pay_week", week_id, r.error, r.db # db, FALSE)
        /\ UNCHANGED <<handlers, split>>

NextSnapshots ==
    \/ SnapImportRow
    \/ SnapAssignRide
    \/ SnapCreateLedgerEntry
    \/ SnapDeleteLedgerEntry
    \/ SnapCloseWeek
    \/ SnapPayWeek

SpecSnapshots == InitSnapshots /\ [][NextSnapshots]_vars

\* the deliveries that count for courier c in week w, in the words of the
\* contract
Counted(s, w, c) ==
    {i \in Idx(s.rides) :
        /\ s.rides[i].status = "OK"
        /\ s.rides[i].is_cancelled # "TRUE"
        /\ s.rides[i].courier_id = c
        /\ \/ (s.rides[i].week_id = w /\ s.rides[i].paid_in_week_id = Null)
           \/ s.rides[i].paid_in_week_id = w}

\* the weeks a delivery is in scope of
ScopeWeeks(s, i) ==
    {w \in Idx(s.weeks) :
        \/ (s.rides[i].week_id = w /\ s.rides[i].paid_in_week_id = Null)
        \/ s.rides[i].paid_in_week_id = w}

\* C16: a delivery counts in rides_count / rides_amount of week W iff it is
\* OK, not cancelled and (week_id = W and paid_in_week_id is null) or
\* paid_in_week_id = W; a redirected delivery counts in the week it is paid in
\* and not in its home week, and every delivery is in scope of exactly one week
AggregationScope ==
    /\ \A w \in AllWeeks :
         LET rows == compute_week_payout_preview(db, w)
         IN \A c \in {Null} \cup Couriers :
              LET hit == {k \in Idx(rows) : rows[k].courier_id = c}
                  amount == SumSet(Counted(db, w, c), [i \in Idx(db.rides) |-> 100 * db.rides[i].fee_type])
              IN /\ Cardinality(hit) <= 1
                 /\ hit = {} => Counted(db, w, c) = {}
                 /\ \A k \in hit : /\ rows[k].rides_count = Cardinality(Counted(db, w, c))
                                   /\ rows[k].rides_amount = amount
    /\ \A i \in Idx(db.rides) : Cardinality(ScopeWeeks(db, i)) = 1
    /\ \A i \in Idx(db.rides) :
         (db.rides[i].paid_in_week_id # Null /\ db.rides[i].paid_in_week_id # db.rides[i].week_id)
           => ScopeWeeks(db, i) = {db.rides[i].paid_in_week_id}

\* the close of week 2 paid a delivery of week 1 that was redirected to it
AggregationScopeWitness ==
    /\ last.op = "close_week" /\ last.outcome = "NONE"
    /\ \E i \in Idx(db.rides) :
         /\ db.rides[i].week_id # last.week
         /\ db.rides[i].paid_in_week_id = last.week
         /\ db.rides[i].status = "OK"
         /\ \E p \in db.payouts :
              /\ p.week_id = last.week
              /\ p.courier_id = db.rides[i].courier_id
              /\ p.rides_amount = 100 * db.rides[i].fee_type

\* a WeekPayout row without its payment stamp
Unstamped(p) == [p EXCEPT !.paid_at = Null]

\* C18: pay on a CLOSED week sets the week to PAID and one and the same
\* paid_at on every WeekPayout row of the week, and changes nothing else: the
\* other fields of those rows, the set of rows, the rows of other weeks, the
\* other weeks, deliveries, ledger and loan state
PayFrame ==
    /\ \A w \in AllWeeks : db.weeks[w].status = "CLOSED" =>
         LET r == pay_week(db, w, now(db))
             mine(s) == {p \in s.payouts : p.week_id = w}
             others(s) == {p \in s.payouts : p.week_id # w}
         IN /\ r.error = "NONE"
            /\ r.db.weeks = [db.weeks EXCEPT ![w].status = "PAID"]
            /\ others(r.db) = others(db)
            /\ {Unstamped(p) : p \in mine(r.db)} = {Unstamped(p) : p \in mine(db)}
            /\ Cardinality(mine(r.db)) = Cardinality(mine(db))
            /\ \A p, q \in mine(r.db) : p.paid_at = q.paid_at /\ p.paid_at # Null
            /\ r.db.rides = db.rides
            /\ r.db.ledger = db.ledger
            /\ r.db.plans = db.plans
            /\ r.db.installments = db.installments
            /\ r.db.applications = db.applications
    /\ (last.op = "pay_week" /\ last.outcome = "NONE")
         => /\ db.weeks[last.week].status = "PAID"
            /\ \A p, q \in db.payouts :
                 (p.week_id = last.week /\ q.week_id = last.week)
                   => (p.paid_at = q.paid_at /\ p.paid_at # Null)

\* a week was paid while another closed week keeps its rows unstamped
PayFrameWitness ==
    /\ last.op = "pay_week" /\ last.outcome = "NONE"
    /\ \E p \in db.payouts : p.week_id = last.week /\ p.paid_at # Null
    /\ \E q \in db.payouts : q.week_id # last.week /\ q.paid_at = Null

\* the WeekPayout rows of week w in store s
RowsOf(s, w) == {p \in s.payouts : p.week_id = w}

\* C19: WeekPayout rows exist only for CLOSED or PAID weeks, one per (week,
\* courier) for each non-null courier that had a preview row at closing; once
\* a week is CLOSED no later operation adds, removes or changes its rows
\* except for the paid_at stamp made by its pay
SnapshotImmutable ==
    [][/\ \A p \in db'.payouts : db'.weeks[p.week_id].status \in {"CLOSED", "PAID"}
       /\ \A p, q \in db'.payouts :
            (p.week_id = q.week_id /\ p.courier_id = q.courier_id) => p = q
       /\ \A w \in AllWeeks :
            /\ db.weeks[w].status \in {"CLOSED", "PAID"}
                 => /\ {Unstamped(p) : p \in RowsOf(db', w)} = {Unstamped(p) : p \in RowsOf(db, w)}
                    /\ Cardinality(RowsOf(db', w)) = Cardinality(RowsOf(db, w))
                    /\ RowsOf(db', w) # RowsOf(db, w)
                         => (last'.op = "pay_week" /\ last'.week = w)
            /\ (db.weeks[w].status = "OPEN" /\ db'.weeks[w].status = "CLOSED")
                 => LET rows == compute_week_payout_preview(db, w)
                    IN {p.courier_id : p \in RowsOf(db', w)}
                         = {rows[k].courier_id : k \in Idx(rows)} \ {Null}]_vars

\* another week was closed after a week whose rows are in the store
SnapshotImmutableWitness ==
    /\ last.op = "close_week" /\ last.outcome = "NONE"
    /\ RowsOf(db, last.week) # {}
    /\ \E w \in AllWeeks :
         /\ w # last.week
         /\ db.weeks[w].status \in {"CLOSED", "PAID"}
         /\ RowsOf(db, w) # {}

\* sum of the ledger entries of a type for a week and courier
LedgerSum(s, w, c, type) ==
    SumSet({i \in Idx(s.ledger) : /\ s.ledger[i].week_id = w
                                  /\ s.ledger[i].courier_id = c
                                  /\ s.ledger[i].type = type},
           [i \in Idx(s.ledger) |-> s.ledger[i].amount])

\* C20: delete_ledger_entry on an entry whose week is CLOSED or PAID is
\* rejected and the entry remains, so the EXTRA / VALE entries of a closed week
\* always sum to the extras_amount / vales_amount of the week's snapshot
LedgerFrozen ==
    /\ \A p \in db.payouts :
         /\ p.extras_amount = LedgerSum(db, p.week_id, p.courier_id, "EXTRA")
         /\ p.vales_amount = LedgerSum(db, p.week_id, p.courier_id, "VALE")
    /\ \A i \in Idx(db.ledger) :
         db.weeks[db.ledger[i].week_id].status \in {"CLOSED", "PAID"}
           => LET r == delete_ledger_entry(db, i)
              IN r.error # "NONE" /\ r.db = db

\* the dates of a week: the effective dates create_ledger_entry accepts for it
WeekDays(s, w) == s.weeks[w].start_date .. s.weeks[w].end_date

\* the deliveries of courier c dated d that are in scope of week w under the
\* scope rule of the preview, in the words of the contract
CountedOn(s, w, c, d) == {i \in Counted(s, w, c) : s.rides[i].order_date = d}

PlanAmounts == {2, 5000}
PlanCounts == {1, DEFAULT_LOAN_INSTALLMENTS}
PlanCouriers == {1}
PlanExtras == {[n \in 1..MaxPlanWeeks |-> IF n = rich THEN LargeExtra ELSE 1000] : rich \in {0, MaxPlanWeeks}}

PlanStores ==
    {[LoanWeeksDb(MaxPlanWeeks) EXCEPT !.ledger = LoanLedger(e, MaxPlanWeeks)] : e \in PlanExtras}

InitPlans ==
    /\ db \in PlanStores
    /\ last = Result("init", Null, "NONE", FALSE, FALSE)
    /\ handlers = Idle
    /\ split = NoSplit

PlansCreateLoanPlan ==
    \E courier_id \in PlanCouriers, week_id \in 1..MaxPlanWeeks,
       loan_amount \in PlanAmounts, n_installments \in PlanCounts :
        /\ Len(db.plans) < MaxPlanWeeks
        /\ db.weeks[week_id].status = "OPEN"
        /\ db' = SessionCommit(db, _create_loan_plan_with_installments(db, courier_id, week_id,
                                                                     loan_amount, n_installments))
        /\ last' = Result("_create_loan_plan_with_installments", week_id, "NONE", TRUE,
                          [courier_id |-> courier_id, loan_amount |-> loan_amount,
                           n_installments |-> n_installments])
        /\ UNCHANGED <<handlers, split>>

PlansCloseWeek ==
    \E week_id \in 1..MaxPlanWeeks :
        LET r == close_week(db, week_id, now(db)) IN
        /\ r.error = "NONE"
        /\ db' = r.db
        /\ last' = Result("close_week", week_id, r.error, r.db # db, FALSE)
        /\ UNCHANGED <<handlers, split>>

NextPlans ==
    \/ PlansCreateLoanPlan
    \/ PlansCloseWeek

SpecPlans == InitPlans /\ [][NextPlans]_vars

\* the installments of plan p
InstallmentsOf(s, p) == {i \in Idx(s.installments) : s.installments[i].plan_id = p}

\* C22: a plan created for an advance of a week with closing_seq S has
\* start_closing_seq = S and exactly n installments numbered 1..n, installment
\* k created DUE with paid_amount 0 and due_closing_seq = S + (k - 1); the
\* first one is eligible at the closing of the week the advance was taken in
PlanLayout ==
    [][last'.op = "_create_loan_plan_with_installments"
         => LET p == Len(db.plans) + 1
                S == db.weeks[last'.week].closing_seq
                n == last'.info.n_installments
                new == InstallmentsOf(db', p)
            IN /\ Len(db'.plans) = p
               /\ db'.plans[p].start_closing_seq = S
               /\ db'.plans[p].n_installments = n
               /\ db'.plans[p].courier_id = last'.info.courier_id
               /\ Cardinality(new) = n
               /\ {db'.installments[i].installment_no : i \in new} = 1..n
               /\ \A i \in new :
                    /\ db'.installments[i].status = "DUE"
                    /\ db'.installments[i].paid_amount = 0
                    /\ db'.installments[i].due_closing_seq
                         = S + (db'.installments[i].installment_no - 1)
               /\ \E i \in new :
                    /\ db'.installments[i].installment_no = 1
                    /\ i \in Eligible(db', last'.info.courier_id, S)
               /\ \A i \in Idx(db.installments) : db'.installments[i] = db.installments[i]]_vars

\* a three-installment plan was laid out in a week that is not the first
\* closing, after an earlier plan
PlanLayoutWitness ==
    /\ last.op = "_create_loan_plan_with_installments"
    /\ last.info.n_installments = DEFAULT_LOAN_INSTALLMENTS
    /\ Len(db.plans) >= 2
    /\ db.weeks[last.week].closing_seq > 1

\* ================================================================= SpecWalk
\* the open-week walk over a long run of closed weeks: starting from an empty
\* store, the walk is asked for a date, the week it returns is closed, and so
\* on, until more consecutive weeks are closed than the walk examines
WalkDates == {5, 12}
WalkPayWeeks == {1}

InitWalk ==
    /\ db = EmptyDb
    /\ last = Result("init", Null, "NONE", FALSE, FALSE)
    /\ handlers = Idle
    /\ split = NoSplit

WalkOpenWeek ==
    \E d \in WalkDates :
        LET r == get_open_week_for_date(db, d) IN
        /\ Len(r.db.weeks) <= MaxWalkWeeks
        /\ db' = r.db
        /\ last' = Result("get_open_week_for_date", r.week, r.error, r.db # db, d)
        /\ UNCHANGED <<handlers, split>>

WalkCloseWeek ==
    \E week_id \in 1..MaxWalkWeeks :
        LET r == close_week(db, week_id, now(db)) IN
        /\ r.error = "NONE"
        /\ db' = r.db
        /\ last' = Result("close_week", week_id, r.error, r.db # db, FALSE)
        /\ UNCHANGED <<handlers, split>>

WalkPayWeek ==
    \E week_id \in WalkPayWeeks :
        LET r == pay_week(db, week_id, now(db)) IN
        /\ r.error = "NONE"
        /\ db' = r.db
        /\ last' = Result("pay_week", week_id, r.error, r.db # db, FALSE)
        /\ UNCHANGED <<handlers, split>>

NextWalk ==
    \/ WalkOpenWeek
    \/ WalkCloseWeek
    \/ WalkPayWeek

SpecWalk == InitWalk /\ [][NextWalk]_vars

\* the stored weeks that start on day t
WeeksStarting(s, t) == {i \in Idx(s.weeks) : s.weeks[i].start_date = t}

\* slot k of the walk from d: the week that starts k weeks after the week
\* containing d; it is missing, OPEN, or closed (CLOSED or PAID)
SlotMissing(s, d, k) == WeeksStarting(s, thursday_start(d) + 7 * k) = {}
SlotOpen(s, d, k) ==
    \E i \in WeeksStarting(s, thursday_start(d) + 7 * k) : s.weeks[i].status = "OPEN"
SlotClosed(s, d, k) ==
    \E i \in WeeksStarting(s, thursday_start(d) + 7 * k) : s.weeks[i].status \in {"CLOSED", "PAID"}

InScope(s, w) == {i \in Idx(s.rides) : w \in ScopeWeeks(s, i)}

\* the paid_in_week_id of delivery i names a week that is OPEN
PaidInOpenWeek(s, i) ==
    /\ s.rides[i].paid_in_week_id \in Idx(s.weeks)
    /\ s.weeks[s.rides[i].paid_in_week_id].status = "OPEN"

\* C24: a delivery imported, or assigned with assign_ride, while its home week
\* is CLOSED or PAID keeps its week_id and gets as paid_in_week_id a week that
\* is OPEN at that moment, and the in-scope set of the closed week does not
\* grow
LateRedirect ==
    /\ \A order_date \in ImportDates, today \in Todays, row \in SnapImportRows :
         LET r == import_row(db, order_date, today, row.courier_id, row.fee_type,
                             row.is_cancelled, row.needs_review)
             i == Len(db.rides) + 1
             home == WeeksContaining(db, order_date)
         IN (r.error = "NONE" /\ \E w \in home : db.weeks[w].status \in {"CLOSED", "PAID"})
              => /\ r.db.rides[i].week_id \in home
                 /\ PaidInOpenWeek(r.db, i)
                 /\ \A w \in home : InScope(r.db, w) \subseteq InScope(db, w)
    /\ \A i \in Idx(db.rides), courier_id \in AssignCouriers,
          pay_in_current_week \in BOOLEAN, today \in Todays :
         LET r == assign_ride(db, i, courier_id, pay_in_current_week, today)
             home == db.rides[i].week_id
         IN (r.error = "NONE" /\ db.weeks[home].status \in {"CLOSED", "PAID"})
              => /\ r.db.rides[i].week_id = home
                 /\ PaidInOpenWeek(r.db, i)
                 /\ InScope(r.db, home) \subseteq InScope(db, home)

\* C25: resolveWeekForDate(d) returns a week with start_date <= d <= end_date;
\* when no week contains d it creates exactly one week, OPEN, starting on the
\* latest Thursday on or before d and ending six days later; when a week
\* contains d it returns that week and creates nothing, so a second call with
\* the same date returns the same week
ResolveWeek ==
    [][last'.op = "get_or_create_week_for_date"
         => LET d == last'.info
                r == last'.week
            IN /\ last'.outcome = "NONE"
               /\ r \in Idx(db'.weeks)
               /\ db'.weeks[r].start_date <= d /\ d <= db'.weeks[r].end_date
               /\ IF \E i \in Idx(db.weeks) : db.weeks[i].start_date <= d /\ d <= db.weeks[i].end_date
                  THEN /\ db' = db
                       /\ ~last'.changed
                  ELSE /\ db'.weeks = Append(db.weeks, db'.weeks[r])
                       /\ db'.weeks[r].status = "OPEN"
                       /\ weekday(db'.weeks[r].start_date) = 3
                       /\ d - 6 <= db'.weeks[r].start_date
                       /\ db'.weeks[r].end_date = db'.weeks[r].start_date + 6
                       /\ [db' EXCEPT !.weeks = db.weeks] = db
               /\ get_or_create_week_for_date(db', d) = [db |-> db', week |-> r, error |-> "NONE"]]_vars

\* a week was created for a date that is not a Thursday, next to another week
ResolveWeekWitness ==
    /\ last.op = "get_or_create_week_for_date" /\ last.changed
    /\ Len(db.weeks) >= 2 /\ last.week = Len(db.weeks)
    /\ weekday(last.info) # 3
    /\ db.weeks[last.week].start_date < last.info

\* =============================================================== SpecReview
\* YOOGA files are imported into week 1 (a file repeats a row, or repeats a
\* row of an earlier file, and the copies go to a review group), groups are
\* resolved, deliveries are assigned and the week is closed.  Requests that
\* would open a further week (the late redirect) are steps of SpecSnapshots
ReviewSignatures ==
    {[signature_key |-> "A", courier_id |-> 1, fee_type |-> 10],
     [signature_key |-> "B", courier_id |-> Null, fee_type |-> 6]}
ReviewCopies == {1, 2}
\* resolution requests: approve, keep one delivery (or none named), and an
\* action the endpoint does not know
ReviewRequests ==
    {[action |-> "APPROVE_ALL", keep_ride_id |-> Null], [action |-> "REJECT", keep_ride_id |-> Null]}
    \cup {[action |-> "KEEP_ONE", keep_ride_id |-> k] : k \in 0..MaxReviewRides}

InitReview ==
    /\ db = Week1Db
    /\ last = Result("init", Null, "NONE", FALSE, FALSE)
    /\ handlers = Idle
    /\ split = NoSplit

ReviewImportYooga ==
    \E order_date \in ImportDates, today \in Todays, sig \in ReviewSignatures, copies \in ReviewCopies :
        LET r == import_yooga(db, order_date, today, sig.signature_key, sig.courier_id,
                              sig.fee_type, copies) IN
        /\ Len(db.rides) + copies <= MaxReviewRides
        /\ r.db.weeks = db.weeks
        /\ r.error = "NONE"
        /\ db' = r.db
        /\ last' = Result("import_yooga", Null, r.error, r.db # db, FALSE)
        /\ UNCHANGED <<handlers, split>>

ReviewResolveYooga ==
    \E group_id \in 1..MaxReviewRides, q \in ReviewRequests :
        LET r == resolve_yooga(db, group_id, q.action, q.keep_ride_id) IN
        /\ db' = r.db
        /\ last' = Result("resolve_yooga", Null, r.error, r.db # db,
                          IF r.error = "NONE"
                          THEN [group_id |-> group_id, action |-> q.action,
                                keep_ride_id |-> q.keep_ride_id]
                          ELSE FALSE)
        /\ UNCHANGED <<handlers, split>>

ReviewAssignRide ==
    \E ride_id \in 1..MaxReviewRides, courier_id \in AssignCouriers,
       pay_in_current_week \in BOOLEAN, today \in Todays :
        LET r == assign_ride(db, ride_id, courier_id, pay_in_current_week, today) IN
        /\ r.db.weeks = db.weeks
        /\ r.error = "NONE"
        /\ db' = r.db
        /\ last' = Result("assign_ride", Null, r.error, r.db # db, FALSE)
        /\ UNCHANGED <<handlers, split>>

ReviewCloseWeek ==
    \E week_id \in Idx(db.weeks) :
        LET r == close_week(db, week_id, now(db)) IN
        /\ r.error = "NONE"
        /\ db' = r.db
        /\ last' = Result("close_week", week_id, r.error, r.db # db, FALSE)
        /\ UNCHANGED <<handlers, split>>

NextReview ==
    \/ ReviewImportYooga
    \/ ReviewResolveYooga
    \/ ReviewAssignRide
    \/ ReviewCloseWeek

SpecReview == InitReview /\ [][NextReview]_vars

\* C26: a resolution never produces an OK delivery without a courier and
\* leaves the group RESOLVED: with APPROVE_ALL every delivery of the group in
\* review status becomes OK if it has a courier and pending assignment
\* otherwise; with KEEP_ONE the kept delivery is treated the same way and the
\* others become discarded; afterwards no delivery of the group is in review
\* status and an unmatched one blocks the closing of its week
ResolveReview ==
    [][(last'.op = "resolve_yooga" /\ last'.outcome = "NONE")
         => LET g == last'.info.group_id
                act == last'.info.action
                keep == last'.info.keep_ride_id
                rides == {x.ride_id : x \in {y \in db.items : y.group_id = g}}
                target(i) == IF db.rides[i].courier_id # Null THEN "OK"
                             ELSE "PENDENTE_ATRIBUICAO"
            IN /\ db'.groups[g].status = "RESOLVED"
               /\ Len(db'.rides) = Len(db.rides)
               /\ \A i \in Idx(db.rides) :
                    /\ i \notin rides => db'.rides[i] = db.rides[i]
                    /\ db'.rides[i] = [db.rides[i] EXCEPT !.status = db'.rides[i].status]
                    /\ (i \in rides /\ act = "APPROVE_ALL")
                         => db'.rides[i].status
                              = IF db.rides[i].status = "PENDENTE_REVISAO" THEN target(i)
                                ELSE db.rides[i].status
                    /\ (i \in rides /\ act = "KEEP_ONE")
                         => db'.rides[i].status = IF i = keep THEN target(i) ELSE "DESCARTADO"
                    /\ i \in rides => db'.rides[i].status # "PENDENTE_REVISAO"
                    /\ (db'.rides[i].status = "OK" /\ db'.rides[i].courier_id = Null)
                         => db.rides[i].status = "OK"
                    /\ (i \in rides /\ db'.rides[i].courier_id = Null
                          /\ db'.rides[i].status # "DESCARTADO")
                         => \A w \in ScopeWeeks(db', i) :
                              close_week(db', w, now(db')).error
                                \in {"WEEK_HAS_PENDINGS", "WEEK_NOT_OPEN"}]_vars

\* a group with a delivery that has no courier was approved, and the
\* delivery went to pending assignment
ResolveReviewWitness ==
    /\ last.op = "resolve_yooga" /\ last.outcome = "NONE" /\ last.changed
    /\ last.info.action = "APPROVE_ALL"
    /\ \E x \in db.items :
         /\ x.group_id = last.info.group_id
         /\ db.rides[x.ride_id].courier_id = Null
         /\ db.rides[x.ride_id].status = "PENDENTE_ATRIBUICAO"

\* what the application rows of installment i add up to
AppliedOn(s, i) ==
    SumSet({a \in Idx(s.applications) : s.applications[a].installment_id = i},
           [a \in Idx(s.applications) |-> s.applications[a].applied_amount])

\* what the snapshots deducted from courier c, and what c's plans total
DeductedFrom(s, c) ==
    LET rows == {p \in s.payouts : p.courier_id = c}
    IN SumSet(rows, [p \in rows |-> p.installments_amount])
PlansTotal(s, c) ==
    SumSet({p \in Idx(s.plans) : s.plans[p].courier_id = c},
           [p \in Idx(s.plans) |-> s.plans[p].total_amount])

\* the balance of every installment in store s
BalanceOk(s) ==
    /\ \A i \in Idx(s.installments) :
         /\ 0 <= s.installments[i].paid_amount
         /\ s.installments[i].paid_amount <= s.installments[i].amount
         /\ s.installments[i].paid_amount = AppliedOn(s, i)
    /\ \A c \in Couriers : DeductedFrom(s, c) <= PlansTotal(s, c)

\* C27: over any sequence of plan creations and closes every installment has
\* 0 <= paid_amount <= amount, its amount never changes, its paid_amount never
\* decreases and equals the sum of its application rows, which are only ever
\* appended; so what is deducted from a courier over all closed weeks never
\* exceeds the total of the courier's plans
LoanBalance ==
    [][/\ BalanceOk(db')
       /\ Len(db'.installments) >= Len(db.installments)
       /\ \A i \in Idx(db.installments) :
            /\ db'.installments[i].amount = db.installments[i].amount
            /\ db'.installments[i].plan_id = db.installments[i].plan_id
            /\ db'.installments[i].paid_amount >= db.installments[i].paid_amount
       /\ Len(db'.applications) >= Len(db.applications)
       /\ \A a \in Idx(db.applications) : db'.applications[a] = db.applications[a]]_vars

\* a close applied money to an installment that an earlier close had paid in
\* part
LoanBalanceWitness ==
    /\ last.op = "close_week" /\ last.outcome = "NONE"
    /\ \E i \in Idx(db.installments) :
         /\ Cardinality({a \in Idx(db.applications) : db.applications[a].installment_id = i}) >= 2
         /\ db.installments[i].paid_amount > 0

\* what all the snapshots pay for deliveries, and the payable fee of all the
\* deliveries of the store
RidesPaid(s) == SumSet(s.payouts, [p \in s.payouts |-> p.rides_amount])
RidesPayable(s) == SumSet(Idx(s.rides), [i \in Idx(s.rides) |-> 100 * s.rides[i].fee_type])

\* C28: no delivery is paid twice: each delivery's payable fee is part of the
\* rides_amount of at most one week's snapshot, so the snapshots together
\* never pay more for deliveries than the deliveries of the store are worth
PaidOnce == RidesPaid(db) <= RidesPayable(db)

\* the installments of courier c that are not PAID, and what they still owe
OpenInstallments(s, c) ==
    {i \in Idx(s.installments) :
        /\ s.plans[s.installments[i].plan_id].courier_id = c
        /\ s.installments[i].status # "PAID"}
TotalRemaining(s, c) ==
    SumSet(OpenInstallments(s, c), [i \in Idx(s.installments) |-> Remaining(s, i)])

\* rides + extras - vales of courier c in week w
PreNet(s, w, c) ==
    LET r == PreviewRow(s, w, c) IN r.rides_amount + r.extras_amount - r.vales_amount

\* installments of courier c that the closing of week w takes up: open, of an
\* ACTIVE plan, due at or before the week's closing_seq
DueAt(s, w, c) ==
    {i \in OpenInstallments(s, c) :
        /\ s.plans[s.installments[i].plan_id].status = "ACTIVE"
        /\ s.installments[i].due_closing_seq <= s.weeks[w].closing_seq}

\* courier c has a row in week w whose pre-installment net covers everything
\* c still owes
Covered(s, w, c) ==
    /\ c \in PreviewCourierIds(s, w)
    /\ PreNet(s, w, c) >= TotalRemaining(s, c)

\* C29: amortization completes: for a plan of any positive amount (0.01 and
\* 0.02 included, which split into zero-amount installments), closings in
\* which the courier's pre-installment net covers the total still due bring
\* every installment to PAID and the plan to DONE.  Stated on one closing: a
\* closing with such a net leaves no installment due at it as it was; each is
\* PAID, or its status, paid_amount or due_closing_seq has moved.  An
\* installment that such a closing leaves untouched is found in the same
\* state by every later closing and is never PAID
AmortizationCompletes ==
    [][(/\ last'.op = "close_week"
        /\ last'.outcome = "NONE"
        /\ Covered(db, last'.week, 1))
         => \A i \in DueAt(db, last'.week, 1) :
               \/ db'.installments[i].status = "PAID"
               \/ db'.installments[i] # db.installments[i]]_vars

\* ============================================================== SpecAdvance
\* two request handlers run create_ledger_entry for VALE requests of the same
\* courier, week and date, each on its own session, with the courier's
\* deliveries unchanged.  A handler's first statements are the week lookup of
\* line 115 and the status test of line 118; the test raises in every call
\* that found the week (LedgerWeekStatus), the request ends there, and no
\* statement after line 118 is ever run, so a handler has no further step
AdvanceAmounts == {400, 800, 1200}
AdvanceVales == {0, 300}
AdvanceFees == {<<10>>, <<10, 6>>}

AdvanceStores ==
    {[Week1Db EXCEPT
        !.rides = [k \in Idx(f) |->
                     [courier_id |-> 1, fee_type |-> f[k], status |-> "OK",
                      is_cancelled |-> "NULL", order_date |-> 5, week_id |-> 1,
                      paid_in_week_id |-> Null]],
        !.ledger = IF v = 0 THEN <<>>
                   ELSE <<[courier_id |-> 1, week_id |-> 1, effective_date |-> 5,
                           type |-> "VALE", amount |-> v]>>]
     : f \in AdvanceFees, v \in AdvanceVales}

AdvanceIdle ==
    [h \in Handlers |-> [pc |-> "idle", amount |-> 0, error |-> "NONE", result |-> NoResult]]

InitAdvance ==
    /\ db \in AdvanceStores
    /\ last = Result("init", Null, "NONE", FALSE, FALSE)
    /\ handlers = AdvanceIdle
    /\ split = NoSplit

\* POST /ledger arrives at handler h
AdvanceRequest(h) ==
    \E amount \in AdvanceAmounts :
        /\ handlers[h].pc = "idle"
        /\ handlers' = [handlers EXCEPT ![h].pc = "checking", ![h].amount = amount]
        /\ UNCHANGED <<db, last, split>>

\* lines 115-141 of handler h: the checks, on the committed store
AdvanceCheck(h) ==
    /\ handlers[h].pc = "checking"
    /\ LET err == CreateLedgerError(db, 1, 1, 5, "VALE", handlers[h].amount) IN
       /\ handlers' = [handlers EXCEPT ![h].pc = IF err # "NONE" THEN "done" ELSE "reading",
                                       ![h].error = err]
       /\ db' = SessionClose(db, db)
       /\ last' = Result("create_ledger_entry", 1, err, FALSE, FALSE)
    /\ UNCHANGED split

NextAdvance ==
    \E h \in Handlers : AdvanceRequest(h) \/ AdvanceCheck(h)

SpecAdvance == InitAdvance /\ [][NextAdvance]_vars

\* C30: after any interleaving of concurrent VALE requests for the same
\* courier, week and date, the VALE entries recorded for them sum to at most
\* day_gain, and the returned vale_amount + loan_amount sum to the requested
\* amounts
AdvanceCapConcurrent ==
    /\ existing_vales(db, 1, 1, 5) <= day_gain(db, 1, 1, 5)
    /\ (\A h \in Handlers : handlers[h].pc = "done")
         => SumSet(Handlers, [h \in Handlers |-> handlers[h].result.vale_amount
                                                  + handlers[h].result.loan_amount])
              = SumSet(Handlers, [h \in Handlers |-> handlers[h].amount])

====
